---------------------------- MODULE Spec2Model ----------------------------
(***************************************************************************)
(* A model of llm-seo: the content registry, the marketing index, the      *)
(* programmatic engine, the artifact assembler (generateSeoArtifacts) and  *)
(* the markdown delivery negotiator with its Express adapter.              *)
(*                                                                         *)
(* Strings whose characters the code inspects (file names, route paths,    *)
(* URLs, Accept headers) are sequences of one-character strings, so that   *)
(* split, trim, endsWith, replace and friends are computed as the code     *)
(* computes them.  The JavaScript values null / undefined / '' of such a   *)
(* string are all the empty sequence (the code only tests them for         *)
(* truthiness).                                                            *)
(***************************************************************************)
EXTENDS Integers, Sequences, FiniteSets, TLC

VARIABLES
    \* ---- the file system and process-wide state seen by generateSeoArtifacts
    marketingFiles,   \* content/marketing: the .md files in readdir order
    templates,        \* content/seo/templates + datasets, in readdir order
    generatedDir,     \* content/seo/generated: the files present, in readdir order
    genConfig,        \* config.generation toggles of the current invocation
    cachedIndex,      \* programmatic/index.ts: let cachedIndex
    pagesFiles,       \* content/pages: the files present, in readdir order
    artifacts,        \* the artifact files on disk: file name -> content
    publicFiles,      \* the public markdown copies on disk (output paths)
    \* ---- one generateSeoArtifacts invocation
    gpc,              \* position in generateSeoArtifacts
    run,              \* locals of the invocation in progress
    result,           \* what the last finished invocation returned / threw
    runs,             \* number of invocations started
    \* ---- direct calls of the pure builders
    built,            \* outcome of the last direct buildProgrammaticIndex call
    builtStatic,      \* outcome of the last direct static index build
    \* ---- the memoizing accessors
    accessor,         \* the accessor the process calls
    nodeEnv,          \* process.env.NODE_ENV
    cacheFile,        \* the JSON cache file that accessor reads
    registryCachedIndex, \* registry.ts: let cachedIndex
    cachedRoutes,     \* marketing_routes.ts: let cachedRoutes
    cachedContent,    \* marketing.ts: let cachedContent
    computed,         \* the value the most recent computing call returned
    lastCall,         \* the last accessor call: its options and its outcome
    calls,            \* number of accessor calls made
    \* ---- markdown delivery
    request,          \* the request: method, url, Accept header, query format
    markdownConfig,   \* config.markdown
    indexablePaths,   \* the paths the caller's isIndexable accepts
    contentPaths,     \* the paths the caller's resolveContent resolves
    rendered,         \* outcome of the last direct negotiator call
    handled,          \* whether the Express middleware has handled the request
    expressCalls,     \* next() / res.* calls the middleware made, in order
    callbacks,        \* maybeRenderMarkdown step by step: its position, the
                      \* target path and the callbacks invoked so far
    \* ---- llms.txt
    llmsOptions,      \* the options of a buildLlmsTxt call: config and articleLinks
    llmsText,         \* what the last buildLlmsTxt call returned, line by line
    \* ---- markdown rendering and parsing
    seoPage,          \* the page content handed to renderSeoMarkdown
    markdownFile,     \* a markdown file, line by line
    parser,           \* the parser the file was given to, "none" before
    parsed,           \* what that parser returned
    \* ---- the marketing index built directly
    builtMarketing,   \* outcome of the last direct marketing index build
    \* ---- the public markdown copies, written target by target
    publicContent,    \* the three content indexes the targets are selected from
    publicMarkdown,   \* the targets, each write's position, the files, the count
    \* ---- the programmatic pages built and validated directly
    builtPages,       \* outcome of the last buildProgrammaticPagesFromTemplates call
    issues,           \* outcome of the last validateProgrammaticPages call
    \* ---- the dates of the marketing routes over successive runs
    routeDates        \* the marketing files, git's dates, marketing_routes.json
                      \* and what each run returned and wrote

pipelineVars == <<marketingFiles, templates, generatedDir, genConfig, cachedIndex,
                  pagesFiles, artifacts, publicFiles, gpc, run, result, runs, built>>

accessVars == <<accessor, nodeEnv, cacheFile, registryCachedIndex, cachedRoutes,
                cachedContent, computed, lastCall, calls>>

deliveryVars == <<request, markdownConfig, indexablePaths, contentPaths, rendered,
                  handled, expressCalls, callbacks>>

llmsVars == <<llmsOptions, llmsText>>

\* the state of the functions called on their own
markdownVars == <<seoPage, markdownFile, parser, parsed>>

directVars == <<builtMarketing, publicContent, publicMarkdown, builtPages, issues,
                routeDates>>

toolVars == <<llmsVars, markdownVars, directVars>>

\* what generateSeoArtifacts and the programmatic builders leave alone
otherVars == <<builtStatic, accessVars, deliveryVars, toolVars>>

vars == <<pipelineVars, otherVars>>

-----------------------------------------------------------------------------
(* Bounds of the model *)

MaxFiles == 2

MaxRuns == 2

MaxTemplates == 3

MaxCalls == 3

MaxAcceptEntries == 1

MaxSmallRoutes == 8
\* the configured llms.txt sections
MaxSections == 3

-----------------------------------------------------------------------------
(* Strings as sequences of characters *)

Upper == <<"A","B","C","D","E","F","G","H","I","J","K","L","M",
           "N","O","P","Q","R","S","T","U","V","W","X","Y","Z">>

Lower == <<"a","b","c","d","e","f","g","h","i","j","k","l","m",
           "n","o","p","q","r","s","t","u","v","w","x","y","z">>

Digits == {"0","1","2","3","4","5","6","7","8","9"}

Range(s) == {s[i] : i \in DOMAIN s}

LowerChar(c) ==
    IF \E i \in DOMAIN Upper : Upper[i] = c
    THEN Lower[CHOOSE i \in DOMAIN Upper : Upper[i] = c]
    ELSE c

UpperChar(c) ==
    IF \E i \in DOMAIN Lower : Lower[i] = c
    THEN Upper[CHOOSE i \in DOMAIN Lower : Lower[i] = c]
    ELSE c

\* String.prototype.toLowerCase / toUpperCase
ToLowerCase(s) == [i \in DOMAIN s |-> LowerChar(s[i])]

ToUpperCase(s) == [i \in DOMAIN s |-> UpperChar(s[i])]

\* the characters \s matches among those the model uses
IsSpace(c) == c \in {" ", "\t", "\n"}

StartsWith(s, p) == Len(s) >= Len(p) /\ SubSeq(s, 1, Len(p)) = p

EndsWith(s, p) == Len(s) >= Len(p) /\ SubSeq(s, Len(s) - Len(p) + 1, Len(s)) = p

\* s.includes(p)
Includes(s, p) == \E i \in 1..(Len(s) - Len(p) + 1) : SubSeq(s, i, i + Len(p) - 1) = p

SetMin(S) == CHOOSE x \in S : \A y \in S : x <= y

SetMax(S) == CHOOSE x \in S : \A y \in S : x >= y

\* String.prototype.trim
Trim(s) ==
    LET keep == {i \in DOMAIN s : ~IsSpace(s[i])}
    IN  IF keep = {} THEN <<>> ELSE SubSeq(s, SetMin(keep), SetMax(keep))

\* s.split(ch): the pieces between the occurrences of the character ch
RECURSIVE Split(_, _)
Split(s, ch) ==
    LET hits == {i \in DOMAIN s : s[i] = ch}
    IN  IF hits = {} THEN <<s>>
        ELSE LET i == SetMin(hits)
             IN  <<SubSeq(s, 1, i - 1)>> \o Split(SubSeq(s, i + 1, Len(s)), ch)

\* pieces.join(sep)
RECURSIVE Join(_, _)
Join(pieces, sep) ==
    IF pieces = <<>> THEN <<>>
    ELSE IF Len(pieces) = 1 THEN pieces[1]
    ELSE pieces[1] \o sep \o Join(Tail(pieces), sep)

NonEmpty(x) == x # <<>>

\* .filter(Boolean) on a list of strings
FilterBoolean(pieces) == SelectSeq(pieces, NonEmpty)

\* replace every character `from` by `to`
ReplaceChar(s, from, to) == [i \in DOMAIN s |-> IF s[i] = from THEN to ELSE s[i]]

\* s.replace(/\/+/g, '/'): every run of slashes becomes one slash
RECURSIVE CollapseSlashes(_)
CollapseSlashes(s) ==
    IF s = <<>> THEN <<>>
    ELSE IF Len(s) >= 2 /\ s[1] = "/" /\ s[2] = "/" THEN CollapseSlashes(Tail(s))
    ELSE <<s[1]>> \o CollapseSlashes(Tail(s))

\* s.replace(/\/+$/, ''): the trailing slashes removed
RECURSIVE StripTrailingSlashes(_)
StripTrailingSlashes(s) ==
    IF s # <<>> /\ s[Len(s)] = "/" THEN StripTrailingSlashes(SubSeq(s, 1, Len(s) - 1))
    ELSE s

\* the elements of a sequence, as a set of indices with equal elements
NoDuplicates(seq) == \A i, j \in DOMAIN seq : seq[i] = seq[j] => i = j

-----------------------------------------------------------------------------
(* core/utils/normalize.ts (imported as utils/path.js) *)

toPosixPath(value) == ReplaceChar(value, "\\", "/")

\* value.replace(/\.[^.]+$/, ''): the last dot and what follows it, when
\* at least one character follows
stripExtension(value) ==
    LET dots == {i \in DOMAIN value : value[i] = "."}
    IN  IF dots = {} \/ SetMax(dots) = Len(value) THEN value
        ELSE SubSeq(value, 1, SetMax(dots) - 1)

isIgnoredSegment(segment) == StartsWith(segment, <<"_">>) \/ StartsWith(segment, <<".">>)

isMarkdownFile(fileName) ==
    /\ EndsWith(fileName, <<".", "m", "d">>)
    /\ ToLowerCase(fileName) # <<"r","e","a","d","m","e",".","m","d">>

\* segment.replace(/_/g, '-').replace(/\s+/g, '-').toLowerCase()
RECURSIVE CollapseSpacesToHyphen(_)
CollapseSpacesToHyphen(s) ==
    IF s = <<>> THEN <<>>
    ELSE IF IsSpace(s[1])
         THEN IF Len(s) >= 2 /\ IsSpace(s[2]) THEN CollapseSpacesToHyphen(Tail(s))
              ELSE <<"-">> \o CollapseSpacesToHyphen(Tail(s))
         ELSE <<s[1]>> \o CollapseSpacesToHyphen(Tail(s))

slugifySegment(segment) ==
    ToLowerCase(CollapseSpacesToHyphen(ReplaceChar(segment, "_", "-")))

normalizePath(value) ==
    IF value = <<>> THEN <<"/">>
    ELSE LET withoutQuery == Split(value, "?")[1]
             trimmed == Trim(withoutQuery)
             slashed == IF StartsWith(trimmed, <<"/">>) THEN trimmed ELSE <<"/">> \o trimmed
             collapsed == CollapseSlashes(slashed)
             normalized == IF Len(collapsed) > 1 /\ EndsWith(collapsed, <<"/">>)
                           THEN StripTrailingSlashes(collapsed)
                           ELSE collapsed
         IN  IF normalized = <<>> THEN <<"/">> ELSE normalized

buildMarkdownPath(pathValue) ==
    IF pathValue = <<"/">> THEN <<"/","i","n","d","e","x",".","m","d">>
    ELSE pathValue \o <<".","m","d">>

\* localeCompare on the characters route paths are made of: punctuation
\* before digits before letters
CollationOrder ==
    <<"_", "-", ".", "/", "0","1","2","3","4","5","6","7","8","9">> \o Lower

CharRank(c) ==
    IF \E i \in DOMAIN CollationOrder : CollationOrder[i] = c
    THEN CHOOSE i \in DOMAIN CollationOrder : CollationOrder[i] = c
    ELSE Len(CollationOrder) + 1

\* a.localeCompare(b) < 0
RECURSIVE LocaleLess(_, _)
LocaleLess(a, b) ==
    IF b = <<>> THEN FALSE
    ELSE IF a = <<>> THEN TRUE
    ELSE IF CharRank(a[1]) # CharRank(b[1]) THEN CharRank(a[1]) < CharRank(b[1])
    ELSE LocaleLess(Tail(a), Tail(b))

\* Array.prototype.sort((a, b) => a.path.localeCompare(b.path)): a stable
\* insertion of each record after the records that are not greater
RECURSIVE InsertByPath(_, _)
InsertByPath(sorted, rec) ==
    IF sorted = <<>> THEN <<rec>>
    ELSE IF LocaleLess(rec.path, sorted[1].path) THEN <<rec>> \o sorted
    ELSE <<sorted[1]>> \o InsertByPath(Tail(sorted), rec)

RECURSIVE SortByPath(_)
SortByPath(records) ==
    IF records = <<>> THEN <<>>
    ELSE InsertByPath(SortByPath(SubSeq(records, 1, Len(records) - 1)),
                      records[Len(records)])

-----------------------------------------------------------------------------
(* core/content/marketing.ts *)

\* A file of a content directory: its path relative to the directory and
\* the metadata its parser yields (the values of the `path`, `indexable`
\* and `llms` keys; <<>> when the key is absent).
File(name, metaPath, indexable) ==
    [name |-> name, metaPath |-> metaPath, indexable |-> indexable]

\* the last path segment of a relative path (the directory entry's name)
BaseName(relativePath) ==
    LET segments == Split(relativePath, "/") IN segments[Len(segments)]

\* scanMarketingMarkdown: entries whose name starts with _ or . are skipped
\* at every level, and only files named *.md other than readme.md are kept
scanMarketingMarkdown(entries) ==
    LET kept(f) == /\ \A k \in DOMAIN Split(f.name, "/") :
                         ~isIgnoredSegment(Split(f.name, "/")[k])
                   /\ isMarkdownFile(BaseName(f.name))
    IN  SelectSeq(entries, kept)

MarketingIndexRoute == <<"/","m","a","r","k","e","t","i","n","g">>

\* marketing.ts buildRoutePathFromFile; <<>> is its null
marketingBuildRoutePathFromFile(relativePath) ==
    LET normalized == toPosixPath(relativePath)
        withoutExt == stripExtension(normalized)
        segments == FilterBoolean(Split(withoutExt, "/"))
    IN  IF withoutExt = <<>> THEN <<>>
        ELSE IF segments = <<>> THEN <<>>
        ELSE IF \E k \in DOMAIN segments : isIgnoredSegment(segments[k]) THEN <<>>
        ELSE LET baseName == segments[Len(segments)]
                 isIndex == ToLowerCase(baseName) = <<"i","n","d","e","x">>
                 routeSegments == IF isIndex THEN SubSeq(segments, 1, Len(segments) - 1)
                                  ELSE segments
                 slugSegments == [k \in DOMAIN routeSegments |->
                                     slugifySegment(routeSegments[k])]
             IN  IF isIgnoredSegment(baseName) THEN <<>>
                 ELSE IF routeSegments = <<>> THEN MarketingIndexRoute
                 ELSE <<"/">> \o Join(slugSegments, <<"/">>)

\* the outcome of a builder: a returned list of records, or a thrown error
Returned(records) == [threw |-> FALSE, records |-> records, error |-> <<>>]

Thrown(error) == [threw |-> TRUE, records |-> <<>>, error |-> error]

\* seen.get(routePath): the file recorded for the path, <<>> when none
SeenGet(seen, routePath) ==
    IF \E k \in DOMAIN seen : seen[k].path = routePath
    THEN seen[SetMax({k \in DOMAIN seen : seen[k].path = routePath})].file
    ELSE <<>>

MarketingSourceFile(file) ==
    <<"c","o","n","t","e","n","t","/","m","a","r","k","e","t","i","n","g","/">> \o file

\* the record pushed for an accepted file (the fields the model follows)
MarketingRecord(f, routePath) ==
    [path |-> routePath,
     indexable |-> f.indexable,
     markdownPath |-> buildMarkdownPath(routePath),
     sourceFile |-> toPosixPath(MarketingSourceFile(f.name))]

\* a faulty variant of the loop: a file whose route was already seen is
\* dropped and the index of the others is returned
RECURSIVE MarketingIndexLoopSkipping(_, _, _)
MarketingIndexLoopSkipping(files, results, seen) ==
    IF files = <<>> THEN Returned(SortByPath(results))
    ELSE IF marketingBuildRoutePathFromFile(Head(files).name) = <<>>
              \/ SeenGet(seen, marketingBuildRoutePathFromFile(Head(files).name)) # <<>>
         THEN MarketingIndexLoopSkipping(Tail(files), results, seen)
         ELSE MarketingIndexLoopSkipping(
                  Tail(files),
                  Append(results, MarketingRecord(Head(files),
                                      marketingBuildRoutePathFromFile(Head(files).name))),
                  Append(seen, [path |-> marketingBuildRoutePathFromFile(Head(files).name),
                                file |-> Head(files).name]))

\* the for loop of buildMarketingContentIndexFromFilesystem
RECURSIVE MarketingIndexLoop(_, _, _)
MarketingIndexLoop(files, results, seen) ==
    IF files = <<>> THEN Returned(SortByPath(results))
    ELSE LET f == Head(files)
             routePath == marketingBuildRoutePathFromFile(f.name)
             existing == SeenGet(seen, routePath)
         IN  IF routePath = <<>> THEN MarketingIndexLoop(Tail(files), results, seen)
             ELSE IF existing # <<>>
                  THEN Thrown([kind |-> "DuplicateMarketingRoute",
                               path |-> routePath,
                               files |-> <<existing, f.name>>])
                  ELSE MarketingIndexLoop(
                           Tail(files),
                           Append(results, MarketingRecord(f, routePath)),
                           Append(seen, [path |-> routePath, file |-> f.name]))

buildMarketingContentIndexFromFilesystem(entries) ==
    MarketingIndexLoop(scanMarketingMarkdown(entries), <<>>, <<>>)

\* marketing_routes.ts buildMarketingRoutesFromFilesystem: the projection of
\* the content index (it throws when the index build throws)
buildMarketingRoutesFromFilesystem(entries) ==
    LET index == buildMarketingContentIndexFromFilesystem(entries)
    IN  IF index.threw THEN index
        ELSE Returned([k \in DOMAIN index.records |->
                          [path |-> index.records[k].path,
                           indexable |-> index.records[k].indexable,
                           sourceFile |-> index.records[k].sourceFile]])


-----------------------------------------------------------------------------
(* programmatic/index.ts: template x dataset expansion *)

RESERVED_TOKEN_KEYS ==
    {<<"s","l","u","g">>,
     <<"l","a","b","e","l">>,
     <<"t","i","t","l","e">>,
     <<"h","e","a","d","i","n","g">>,
     <<"d","e","s","c","r","i","p","t","i","o","n">>,
     <<"s","e","o","T","i","t","l","e">>,
     <<"s","e","o","D","e","s","c","r","i","p","t","i","o","n">>,
     <<"e","y","e","b","r","o","w">>,
     <<"s","e","c","t","i","o","n","s">>,
     <<"f","a","q","s">>,
     <<"f","e","a","t","u","r","e","L","i","s","t">>,
     <<"t","a","g","s">>,
     <<"r","e","l","a","t","e","d","S","l","u","g","s">>,
     <<"h","u","b">>,
     <<"t","o","k","e","n","s">>,
     <<"i","n","d","e","x","a","b","l","e">>,
     <<"l","l","m","s">>,
     <<"p","u","b","l","i","s","h","e","d","A","t">>,
     <<"u","p","d","a","t","e","d","A","t">>,
     <<"o","g","I","m","a","g","e">>,
     <<"o","g","T","y","p","e">>,
     <<"s","c","h","e","m","a","T","y","p","e">>,
     <<"c","t","a">>}

\* [A-Za-z0-9_-]
TokenChar(c) ==
    \/ \E i \in DOMAIN Lower : Lower[i] = c
    \/ \E i \in DOMAIN Upper : Upper[i] = c
    \/ c \in Digits
    \/ c \in {"_", "-"}

\* A string-keyed object is a sequence of [key, value] entries in insertion
\* order with distinct keys.
Entry(key, value) == [key |-> key, value |-> value]

HasKey(obj, key) == \E k \in DOMAIN obj : obj[k].key = key

\* obj[key] ?? ''
Lookup(obj, key) ==
    IF HasKey(obj, key) THEN obj[CHOOSE k \in DOMAIN obj : obj[k].key = key].value
    ELSE <<>>

\* obj[key] = value
SetKey(obj, key, value) ==
    IF HasKey(obj, key)
    THEN [k \in DOMAIN obj |-> IF obj[k].key = key THEN Entry(key, value) ELSE obj[k]]
    ELSE Append(obj, Entry(key, value))

\* the length of the longest prefix of s made of token characters
RECURSIVE TokenRun(_)
TokenRun(s) == IF s # <<>> /\ TokenChar(s[1]) THEN 1 + TokenRun(Tail(s)) ELSE 0

\* route.replace(/\{([A-Za-z0-9_-]+)\}/g, (_m, key) => tokens[key] ?? '')
RECURSIVE ReplaceBraceTokens(_, _)
ReplaceBraceTokens(s, tokens) ==
    IF s = <<>> THEN <<>>
    ELSE LET n == TokenRun(Tail(s))
         IN  IF s[1] = "{" /\ n >= 1 /\ Len(s) >= n + 2 /\ s[n + 2] = "}"
             THEN Lookup(tokens, SubSeq(s, 2, n + 1))
                      \o ReplaceBraceTokens(SubSeq(s, n + 3, Len(s)), tokens)
             ELSE <<s[1]>> \o ReplaceBraceTokens(Tail(s), tokens)

\* .replace(/:([A-Za-z0-9_-]+)/g, (_m, key) => tokens[key] ?? '')
RECURSIVE ReplaceColonTokens(_, _)
ReplaceColonTokens(s, tokens) ==
    IF s = <<>> THEN <<>>
    ELSE LET n == TokenRun(Tail(s))
         IN  IF s[1] = ":" /\ n >= 1
             THEN Lookup(tokens, SubSeq(s, 2, n + 1))
                      \o ReplaceColonTokens(SubSeq(s, n + 2, Len(s)), tokens)
             ELSE <<s[1]>> \o ReplaceColonTokens(Tail(s), tokens)

\* /\{.+?\}/.test(s): a '{' with a '}' at least two characters later
HasBracePattern(s) ==
    \E i, j \in DOMAIN s : s[i] = "{" /\ s[j] = "}" /\ j >= i + 2
        /\ \A k \in (i+1)..(j-1) : s[k] # "\n"

\* /:[A-Za-z0-9_-]+/.test(s)
HasColonPattern(s) == \E i \in 1..(Len(s) - 1) : s[i] = ":" /\ TokenChar(s[i + 1])

\* resolveRoute; <<>> is its null
resolveRoute(route, tokens) ==
    LET substituted == ReplaceColonTokens(ReplaceBraceTokens(route, tokens), tokens)
        resolved == normalizePath(substituted)
    IN  IF \/ Includes(resolved, <<":", "/">>)
           \/ HasBracePattern(resolved)
           \/ HasColonPattern(resolved)
        THEN <<>>
        ELSE IF Includes(resolved, <<"/", "/">>) THEN <<>>
        ELSE resolved

\* A dataset row: slug, the explicit `tokens` object, and the other
\* string-valued top-level fields (key/value entries, reserved keys included).
Record(slug, tokens, fields) == [slug |-> slug, tokens |-> tokens, fields |-> fields]

\* the Object.entries(record) loop of buildTokenMap over the string fields
RECURSIVE OverlayFields(_, _)
OverlayFields(tokens, fields) ==
    IF fields = <<>> THEN tokens
    ELSE OverlayFields(
             IF Head(fields).key \in RESERVED_TOKEN_KEYS THEN tokens
             ELSE SetKey(tokens, Head(fields).key, Head(fields).value),
             Tail(fields))

\* a variant in which a slug entry of the tokens bag is kept
buildTokenMapKeepingSlug(record) ==
    IF HasKey(OverlayFields(record.tokens, record.fields), <<"s","l","u","g">>)
    THEN OverlayFields(record.tokens, record.fields)
    ELSE SetKey(OverlayFields(record.tokens, record.fields), <<"s","l","u","g">>, record.slug)

buildTokenMap(record) ==
    SetKey(OverlayFields(record.tokens, record.fields), <<"s","l","u","g">>, record.slug)


\* A template file with the dataset readDataset finds for it (rows without a
\* string slug already dropped): id, route pattern, default indexable flag
\* and the rows.
Template(id, route, indexable, records) ==
    [id |-> id, route |-> route, indexable |-> indexable, records |-> records]

\* the page built from one dataset row (the fields the model follows)
ProgrammaticPage(template, record, routePath) ==
    [path |-> routePath,
     indexable |-> template.indexable,
     templateId |-> template.id,
     slug |-> record.slug]

\* pageMap.has(path) / pageMap.get(path) on a list of [key, value] entries
MapHas(map, key) == \E k \in DOMAIN map : map[k].key = key

MapGet(map, key) == map[CHOOSE k \in DOMAIN map : map[k].key = key].value

\* the value an index builder returns
Index(pages, pageMap) == [set |-> TRUE, pages |-> pages, pageMap |-> pageMap]

NoIndex == [set |-> FALSE, pages |-> <<>>, pageMap |-> <<>>]

IndexReturned(index) == [threw |-> FALSE, index |-> index, error |-> <<>>]

IndexThrown(error) == [threw |-> TRUE, index |-> NoIndex, error |-> error]

\* a faulty variant of the expansion loop: a row resolving to a path already
\* in pageMap replaces the entry and is pushed as well
RECURSIVE ExpandRowsOverwriting(_, _, _)
ExpandRowsOverwriting(rows, pages, pageMap) ==
    IF rows = <<>> THEN IndexReturned(Index(pages, pageMap))
    ELSE IF resolveRoute(Head(rows).template.route, buildTokenMap(Head(rows).record)) = <<>>
         THEN ExpandRowsOverwriting(Tail(rows), pages, pageMap)
         ELSE ExpandRowsOverwriting(
                  Tail(rows),
                  Append(pages, ProgrammaticPage(Head(rows).template, Head(rows).record,
                            resolveRoute(Head(rows).template.route,
                                         buildTokenMap(Head(rows).record)))),
                  SetKey(pageMap,
                         resolveRoute(Head(rows).template.route,
                                      buildTokenMap(Head(rows).record)),
                         ProgrammaticPage(Head(rows).template, Head(rows).record,
                            resolveRoute(Head(rows).template.route,
                                         buildTokenMap(Head(rows).record)))))

\* the `for (const record of dataset)` loop nested in the
\* `for (const template of templates)` loop of buildProgrammaticIndex:
\* rows is the list of [template, record] pairs still to expand
RECURSIVE ExpandRows(_, _, _)
ExpandRows(rows, pages, pageMap) ==
    IF rows = <<>> THEN IndexReturned(Index(pages, pageMap))
    ELSE LET template == Head(rows).template
             record == Head(rows).record
             tokens == buildTokenMap(record)
             routePath == resolveRoute(template.route, tokens)
             page == ProgrammaticPage(template, record, routePath)
         IN  IF routePath = <<>> THEN ExpandRows(Tail(rows), pages, pageMap)
             ELSE IF MapHas(pageMap, routePath)
                  THEN IndexThrown([kind |-> "DuplicateProgrammaticPath", path |-> routePath])
                  ELSE ExpandRows(Tail(rows), Append(pages, page),
                                  Append(pageMap, Entry(routePath, page)))

\* every [template, record] pair, templates in readdir order and rows in
\* dataset order
RECURSIVE TemplateRows(_)
TemplateRows(tpls) ==
    IF tpls = <<>> THEN <<>>
    ELSE [k \in DOMAIN Head(tpls).records |->
             [template |-> Head(tpls), record |-> Head(tpls).records[k]]]
         \o TemplateRows(Tail(tpls))

buildProgrammaticIndex(tpls) == ExpandRows(TemplateRows(tpls), <<>>, <<>>)

\* programmatic/index.ts buildProgrammaticPagesFromMarkdown: one page per
\* generated markdown file, the first file of a path winning
GeneratedFallbackPath(name) ==
    LET withoutExt == stripExtension(name)
        segments == Split(withoutExt, "/")
    IN  IF withoutExt = <<>> THEN <<"/">>
        ELSE <<"/">> \o Join([k \in DOMAIN segments |->
                                 ToLowerCase(ReplaceChar(segments[k], "_", "-"))], <<"/">>)

GeneratedRoutePath(f) ==
    IF Trim(f.metaPath) # <<>> THEN normalizePath(Trim(f.metaPath))
    ELSE normalizePath(GeneratedFallbackPath(f.name))

\* routePath.split('/').filter(Boolean).pop() || routePath
LastSegmentOr(routePath) ==
    LET segments == FilterBoolean(Split(routePath, "/"))
    IN  IF segments = <<>> THEN routePath ELSE segments[Len(segments)]

RECURSIVE GeneratedLoop(_, _, _)
GeneratedLoop(files, pages, pageMap) ==
    IF files = <<>> THEN Index(pages, pageMap)
    ELSE LET f == Head(files)
             routePath == GeneratedRoutePath(f)
             page == [path |-> routePath,
                      indexable |-> f.indexable,
                      templateId |-> "generated",
                      slug |-> LastSegmentOr(routePath)]
         IN  IF MapHas(pageMap, routePath) THEN GeneratedLoop(Tail(files), pages, pageMap)
             ELSE GeneratedLoop(Tail(files), Append(pages, page),
                                Append(pageMap, Entry(routePath, page)))

\* readGeneratedMarkdownFiles: entries starting with . or _ are skipped at
\* every level, files ending in .md are kept
readGeneratedMarkdownFiles(entries) ==
    LET kept(f) == /\ \A k \in DOMAIN Split(f.name, "/") :
                         ~isIgnoredSegment(Split(f.name, "/")[k])
                   /\ EndsWith(BaseName(f.name), <<".", "m", "d">>)
    IN  SelectSeq(entries, kept)

buildProgrammaticPagesFromMarkdown(entries) ==
    GeneratedLoop(readGeneratedMarkdownFiles(entries), <<>>, <<>>)

\* getIndex: the memoized index, else the generated-markdown index when it
\* has pages, else the template expansion (which may throw)
\* a faulty variant of the choice in getIndex: the expanded pages are added
\* to the generated ones
GeneratedPlusExpanded(generated, tpls) ==
    IF buildProgrammaticIndex(tpls).threw THEN buildProgrammaticIndex(tpls)
    ELSE IndexReturned(Index(generated.pages \o buildProgrammaticIndex(tpls).index.pages,
                             generated.pageMap
                                 \o buildProgrammaticIndex(tpls).index.pageMap))

GeneratedOrExpanded(generated, tpls) ==
    IF generated.pages # <<>> THEN IndexReturned(generated)
    ELSE buildProgrammaticIndex(tpls)

getIndex(cached, refresh, entries, tpls) ==
    IF cached.set /\ ~refresh THEN IndexReturned(cached)
    ELSE GeneratedOrExpanded(buildProgrammaticPagesFromMarkdown(entries), tpls)

\* getProgrammaticSeoRoutes: the projection of the index's pages
ProgrammaticRoutes(index) ==
    [k \in DOMAIN index.pages |->
        [path |-> index.pages[k].path, indexable |-> index.pages[k].indexable]]


-----------------------------------------------------------------------------
(* core/registry.ts *)

\* scanMarkdown: as scanMarketingMarkdown
scanMarkdown(entries) ==
    LET kept(f) == /\ \A k \in DOMAIN Split(f.name, "/") :
                         ~isIgnoredSegment(Split(f.name, "/")[k])
                   /\ isMarkdownFile(BaseName(f.name))
    IN  SelectSeq(entries, kept)

\* registry.ts buildRoutePathFromFile; <<>> is its null
buildRoutePathFromFile(relativePath) ==
    LET normalized == toPosixPath(relativePath)
        withoutExt == stripExtension(normalized)
        segments == FilterBoolean(Split(withoutExt, "/"))
    IN  IF withoutExt = <<>> THEN <<>>
        ELSE IF segments = <<>> THEN <<>>
        ELSE IF \E k \in DOMAIN segments : isIgnoredSegment(segments[k]) THEN <<>>
        ELSE LET baseName == segments[Len(segments)]
                 isIndex == ToLowerCase(baseName) = <<"i","n","d","e","x">>
                 routeSegments == IF isIndex THEN SubSeq(segments, 1, Len(segments) - 1)
                                  ELSE segments
                 slugSegments == [k \in DOMAIN routeSegments |->
                                     slugifySegment(routeSegments[k])]
             IN  IF isIgnoredSegment(baseName) THEN <<>>
                 ELSE IF routeSegments = <<>> THEN <<"/">>
                 ELSE <<"/">> \o Join(slugSegments, <<"/">>)

\* buildContentRecord: the `path` metadata, trimmed, replaces the derived
\* path when it is not empty (the fields the model follows)
buildContentRecord(pathValue, f) ==
    LET pathOverride == Trim(f.metaPath)
        finalPath == IF pathOverride # <<>> THEN pathOverride ELSE pathValue
    IN  [path |-> finalPath,
         indexable |-> f.indexable,
         markdownPath |-> buildMarkdownPath(finalPath),
         sourceFile |-> f.name]

\* the for loop of buildIndexFromDir; skipMarketingPrefix <<>> is undefined
RECURSIVE IndexFromDirLoop(_, _, _)
IndexFromDirLoop(files, skipMarketingPrefix, results) ==
    IF files = <<>> THEN results
    ELSE LET f == Head(files)
             pathValue == buildRoutePathFromFile(toPosixPath(f.name))
             record == buildContentRecord(pathValue, f)
         IN  IF pathValue = <<>>
             THEN IndexFromDirLoop(Tail(files), skipMarketingPrefix, results)
             ELSE IF skipMarketingPrefix # <<>> /\ StartsWith(record.path, skipMarketingPrefix)
             THEN IndexFromDirLoop(Tail(files), skipMarketingPrefix, results)
             ELSE IndexFromDirLoop(Tail(files), skipMarketingPrefix, Append(results, record))

buildIndexFromDir(entries, skipMarketingPrefix) ==
    IndexFromDirLoop(scanMarkdown(entries), skipMarketingPrefix, <<>>)

\* config.routes.marketingRoutePrefix (its default)
MarketingRoutePrefix == <<"/","m","a","r","k","e","t","i","n","g">>

buildSeoStaticContentIndexFromFilesystem(pagesEntries) ==
    buildIndexFromDir(pagesEntries, MarketingRoutePrefix)

buildSeoContentIndexFromFilesystem(pagesEntries, generatedEntries) ==
    buildIndexFromDir(pagesEntries, MarketingRoutePrefix)
        \o buildIndexFromDir(generatedEntries, <<>>)


-----------------------------------------------------------------------------
(* core/generation/sitemap.ts *)

MinOf(a, b) == IF a <= b THEN a ELSE b

MaxOf(a, b) == IF a >= b THEN a ELSE b

\* A route with the fields the model follows
Route(path, indexable) == [path |-> path, indexable |-> indexable]

\* A list of routes, or of their URL entries.  The items of `explicit` are
\* listed one by one; they are followed by the numbered items
\* genFrom..genTo, item k being the indexable route /r<k> (or its entry),
\* so that a list of tens of thousands of routes is kept by its bounds.
\* An empty numbered part is always 1..0.
ItemList(explicit, genFrom, genTo) ==
    [explicit |-> explicit, genFrom |-> genFrom, genTo |-> genTo]

Listed(items) == ItemList(items, 1, 0)

NumberedCount(list) == list.genTo - list.genFrom + 1

\* items.length
ListLen(list) == Len(list.explicit) + NumberedCount(list)

\* the numbered items at offsets a .. b - 1 of the numbered part
NumberedPart(list, a, b) ==
    IF a < b THEN ItemList(<<>>, list.genFrom + a, list.genFrom + b - 1)
    ELSE Listed(<<>>)

\* items.slice(start, end), 0 <= start <= end
ListSlice(list, start, end) ==
    [NumberedPart(list,
                  MaxOf(start - Len(list.explicit), 0),
                  MinOf(end - Len(list.explicit), NumberedCount(list)))
        EXCEPT !.explicit = SubSeq(list.explicit, start + 1, MinOf(end, Len(list.explicit)))]

DigitChars == <<"0","1","2","3","4","5","6","7","8","9">>

RECURSIVE DigitsOf(_)
DigitsOf(n) ==
    IF n < 10 THEN <<DigitChars[n + 1]>>
    ELSE Append(DigitsOf(n \div 10), DigitChars[(n % 10) + 1])

\* the numbered route k
NumberedRoute(k) == Route(<<"/","r">> \o DigitsOf(k), TRUE)

\* a faulty variant of chunk: a last chunk shorter than size is dropped
chunkDroppingRemainder(items, size) ==
    [k \in 1..(ListLen(items) \div size) |-> ListSlice(items, (k - 1) * size, k * size)]

\* chunk: the for loop from index i (0-based) on
RECURSIVE ChunkFrom(_, _, _)
ChunkFrom(items, size, i) ==
    IF i < ListLen(items)
    THEN <<ListSlice(items, i, i + size)>> \o ChunkFrom(items, size, i + size)
    ELSE <<>>

chunk(items, size) == ChunkFrom(items, size, 0)

\* buildSitemapEntries: one <url> entry per route (its <loc> is followed);
\* the entry of the numbered route k is the numbered entry k
SitemapEntry(route) == [loc |-> route.path]

buildSitemapEntries(routes) ==
    [routes EXCEPT !.explicit = [k \in DOMAIN routes.explicit |->
                                    SitemapEntry(routes.explicit[k])]]

-----------------------------------------------------------------------------
(* core/generation/generate.ts *)

MAX_URLS_PER_SITEMAP == 45000

\* a faulty variant of dedupeRoutes: the last route of every path is kept
dedupeRoutesKeepingLast(routes) ==
    LET last(k) == \A j \in (k + 1)..Len(routes) : routes[j].path # routes[k].path
        keptIdx == {k \in DOMAIN routes : last(k)}
        nth[n \in 0..Len(routes)] ==
            IF n = 0 THEN 0 ELSE SetMin({k \in keptIdx : k > nth[n - 1]} \cup {Len(routes) + 1})
    IN  [n \in 1..Cardinality(keptIdx) |-> routes[nth[n]]]

\* dedupeRoutes: the first route of every path is kept
dedupeRoutes(routes) ==
    LET first(k) == \A j \in 1..(k - 1) : routes[j].path # routes[k].path
        keptIdx == {k \in DOMAIN routes : first(k)}
        nth[n \in 0..Len(routes)] ==
            IF n = 0 THEN 0 ELSE SetMin({k \in keptIdx : k > nth[n - 1]} \cup {Len(routes) + 1})
    IN  [n \in 1..Cardinality(keptIdx) |-> routes[nth[n]]]

IsIndexable(r) == r.indexable

\* routes.filter((route) => route.indexable); the numbered routes are
\* indexable
IndexableRoutes(routes) == [routes EXCEPT !.explicit = SelectSeq(@, IsIndexable)]

\* toMarkdownOutputPath, relative to outputDir
toMarkdownOutputPath(pathValue) ==
    IF pathValue = <<"/">> THEN <<"i","n","d","e","x",".","m","d">>
    ELSE Tail(pathValue) \o <<".","m","d">>

\* fs.writeFile(name, content): the file is created or replaced
WriteFile(files, name, content) ==
    [n \in DOMAIN files \cup {name} |-> IF n = name THEN content ELSE files[n]]

NoFiles == [n \in {} |-> <<>>]

\* programmatic/index.ts writeProgrammaticMarkdownFiles: the file written for
\* a page.  The rendered front matter carries `path: <path>` (quoted when
\* the path holds a colon) and `indexable: true|false`, which is what the
\* parser reads back as the file's metadata.
escapeFrontMatterPath(value) ==
    IF \E i \in DOMAIN value : value[i] \in {":", "\n"}
    THEN <<"\"">> \o value \o <<"\"">>
    ELSE value

GeneratedFileFor(page) ==
    File(toMarkdownOutputPath(page.path), escapeFrontMatterPath(page.path), page.indexable)

\* fs.writeFileSync into the generated directory: an existing file is
\* replaced in place, a new one is listed last
PutFile(entries, f) ==
    IF \E k \in DOMAIN entries : entries[k].name = f.name
    THEN [k \in DOMAIN entries |-> IF entries[k].name = f.name THEN f ELSE entries[k]]
    ELSE Append(entries, f)

RECURSIVE WriteGeneratedFiles(_, _)
WriteGeneratedFiles(entries, pages) ==
    IF pages = <<>> THEN entries
    ELSE WriteGeneratedFiles(PutFile(entries, GeneratedFileFor(Head(pages))), Tail(pages))

\* the locals of an invocation
NoRun ==
    [marketingRoutes |-> <<>>, marketingContent |-> <<>>, seoContentIndex |-> <<>>,
     programmaticMarkdownCount |-> 0, programmaticRoutes |-> <<>>,
     routes |-> Listed(<<>>),
     sitemapChunks |-> <<>>, sitemapIndexEntries |-> <<>>, index |-> 0,
     markdownOutputCount |-> 0, written |-> <<>>]

NoResult == [status |-> "none"]

ThrewResult(error, written) == [status |-> "threw", error |-> error, written |-> written]

\* the invocation ends by throwing `error`
Abort(error) ==
    /\ result' = ThrewResult(error, run.written)
    /\ gpc' = "idle"
    /\ run' = NoRun

\* an awaited fs.writeFile of an artifact
WriteArtifact(r, name, content) ==
    /\ artifacts' = WriteFile(artifacts, name, content)
    /\ run' = [r EXCEPT !.written = Append(@, name)]


-----------------------------------------------------------------------------
(* The memoizing accessors: registry.ts getSeoContentIndex,
   marketing_routes.ts getMarketingRoutes, marketing.ts
   getMarketingContentIndex *)

\* A JSON cache file: kind is "missing", "unreadable" (readFileSync throws),
\* "invalidJson" (JSON.parse throws), "notArray" or "array"; data is the
\* parsed array of an "array" file.
CacheFile(kind, data) == [kind |-> kind, data |-> data]

\* what a cache reader returns: null, or the parsed array
Null == [null |-> TRUE, value |-> <<>>]

Parsed(value) == [null |-> FALSE, value |-> value]

\* a faulty variant of readCache: a missing file reads as an empty array
readCacheMissingAsEmpty(file) ==
    IF file.kind = "array" THEN Parsed(file.data)
    ELSE IF file.kind = "missing" THEN Parsed(<<>>)
    ELSE Null

\* registry.ts readCache
readCache(file) ==
    IF file.kind = "missing" THEN Null
    ELSE IF file.kind \in {"unreadable", "invalidJson"} THEN Null
    ELSE IF file.kind = "notArray" THEN Null
    ELSE Parsed(file.data)

\* marketing_routes.ts readMarketingRoutesFile
readMarketingRoutesFile(file) ==
    IF file.kind = "missing" THEN Null
    ELSE IF file.kind \in {"unreadable", "invalidJson"} THEN Null
    ELSE IF file.kind = "notArray" THEN Null
    ELSE Parsed(file.data)

\* marketing.ts readMarketingContentFile
readMarketingContentFile(file) ==
    IF file.kind = "missing" THEN Null
    ELSE IF file.kind \in {"unreadable", "invalidJson"} THEN Null
    ELSE IF file.kind = "notArray" THEN Null
    ELSE Parsed(file.data)

\* a module-level `let cached...: T[] | null`
Memo(value) == [set |-> TRUE, value |-> value]

NoMemo == [set |-> FALSE, value |-> <<>>]

\* the outcome of an accessor call with the memo slot it leaves
AccessReturned(value, memo) ==
    [threw |-> FALSE, value |-> value, error |-> <<>>, memo |-> memo]

AccessThrew(error, memo) ==
    [threw |-> TRUE, value |-> <<>>, error |-> error, memo |-> memo]

\* `slot = value; return slot`
Memoized(value) == AccessReturned(value, Memo(value))

\* `cached || buildSeoContentIndexFromFilesystem(config)`
CachedOrBuilt(cached, pagesEntries, generatedEntries) ==
    IF ~cached.null THEN Memoized(cached.value)
    ELSE Memoized(buildSeoContentIndexFromFilesystem(pagesEntries, generatedEntries))

\* a faulty variant of getSeoContentIndex: an empty memoized index counts
\* as absent
getSeoContentIndexEmptyMiss(memo, refresh, env, file, pagesEntries, generatedEntries) ==
    IF memo.set /\ memo.value # <<>> /\ ~refresh THEN AccessReturned(memo.value, memo)
    ELSE CachedOrBuilt(IF env = "production" THEN readCache(file) ELSE Null,
                       pagesEntries, generatedEntries)

\* registry.ts getSeoContentIndex
getSeoContentIndex(memo, refresh, env, file, pagesEntries, generatedEntries) ==
    IF memo.set /\ ~refresh THEN AccessReturned(memo.value, memo)
    ELSE CachedOrBuilt(IF env = "production" THEN readCache(file) ELSE Null,
                       pagesEntries, generatedEntries)

\* options?.source ?? (isProduction ? 'auto' : 'filesystem'); the option
\* "default" is an absent source
EffectiveSource(sourceOption, env) ==
    IF sourceOption = "default"
    THEN (IF env = "production" THEN "auto" ELSE "filesystem")
    ELSE sourceOption

\* the .map of getMarketingRoutes over the filesystem routes
MarketingRouteProjection(records) ==
    [k \in DOMAIN records |->
        [path |-> records[k].path, indexable |-> records[k].indexable]]

\* `slot = routes || []` after the filesystem build, which may throw
BuiltRoutesOrThrow(fromFs, memo) ==
    IF fromFs.threw THEN AccessThrew(fromFs.error, memo)
    ELSE Memoized(MarketingRouteProjection(fromFs.records))

BuiltContentOrThrow(fromFs, memo) ==
    IF fromFs.threw THEN AccessThrew(fromFs.error, memo)
    ELSE Memoized(fromFs.records)

\* the two `if` statements of getMarketingRoutes after the memo check
RoutesFromSource(source, fromFile, memo, marketingEntries) ==
    IF fromFile.null /\ source \in {"filesystem", "auto"}
    THEN BuiltRoutesOrThrow(buildMarketingRoutesFromFilesystem(marketingEntries), memo)
    ELSE Memoized(fromFile.value)

\* marketing_routes.ts getMarketingRoutes
getMarketingRoutes(memo, refresh, sourceOption, env, file, marketingEntries) ==
    IF memo.set /\ ~refresh THEN AccessReturned(memo.value, memo)
    ELSE RoutesFromSource(
             EffectiveSource(sourceOption, env),
             IF EffectiveSource(sourceOption, env) \in {"file", "auto"}
             THEN readMarketingRoutesFile(file) ELSE Null,
             memo, marketingEntries)

ContentFromSource(source, fromFile, memo, marketingEntries) ==
    IF fromFile.null /\ source \in {"filesystem", "auto"}
    THEN BuiltContentOrThrow(buildMarketingContentIndexFromFilesystem(marketingEntries), memo)
    ELSE Memoized(fromFile.value)

\* marketing.ts getMarketingContentIndex
getMarketingContentIndex(memo, refresh, sourceOption, env, file, marketingEntries) ==
    IF memo.set /\ ~refresh THEN AccessReturned(memo.value, memo)
    ELSE ContentFromSource(
             EffectiveSource(sourceOption, env),
             IF EffectiveSource(sourceOption, env) \in {"file", "auto"}
             THEN readMarketingContentFile(file) ELSE Null,
             memo, marketingEntries)

-----------------------------------------------------------------------------
(* core/content/marketing_routes.ts and the head of generateSeoArtifacts:
   the dates of the marketing routes *)

\* an optional string: undefined, or a value
NoDate == [set |-> FALSE, value |-> <<>>]

DateOf(value) == [set |-> TRUE, value |-> value]

\* a ?? b
Nullish(a, b) == IF a.set THEN a ELSE b

\* what Map.get gives: undefined, or the dates object of the key
NoDatesEntry == [found |-> FALSE, publishedAt |-> NoDate, updatedAt |-> NoDate]

DatesEntry(publishedAt, updatedAt) ==
    [found |-> TRUE, publishedAt |-> publishedAt, updatedAt |-> updatedAt]

\* a marketing file: its route, its name under the marketing directory and
\* its `published` and `updated` metadata
DatedFile(pathValue, sourceFile, published, updated) ==
    [path |-> pathValue, sourceFile |-> sourceFile, published |-> published,
     updated |-> updated]

\* the records of buildMarketingRoutesFromFilesystem, their dates taken from
\* the metadata
DatedRouteRecords(files) ==
    [k \in DOMAIN files |->
        [path |-> files[k].path, sourceFile |-> files[k].sourceFile,
         publishedAt |-> files[k].published, updatedAt |-> files[k].updated]]

\* a route as returned and as written to marketing_routes.json; a property
\* that is undefined is left out by JSON.stringify and read back undefined
DatedRoute(pathValue, publishedAt, updatedAt) ==
    [path |-> pathValue, publishedAt |-> publishedAt, updatedAt |-> updatedAt]

\* new Map(entries).get(key): the last entry of the key
LastWith(entries, key, KeyOf(_)) ==
    LET hits == {k \in DOMAIN entries : KeyOf(entries[k]) = key}
    IN  IF hits = {} THEN 0 ELSE CHOOSE k \in hits : \A other \in hits : other <= k

PathKey(route) == route.path

FileKey(entry) == entry.file

EntryAt(entries, k) ==
    IF k = 0 THEN NoDatesEntry ELSE DatesEntry(entries[k].publishedAt, entries[k].updatedAt)

\* fallbackDates?.get(route.path): no map when the file was not read
FallbackDatesGet(existingRoutes, pathValue) ==
    IF existingRoutes.null THEN NoDatesEntry
    ELSE EntryAt(existingRoutes.value, LastWith(existingRoutes.value, pathValue, PathKey))

\* datesIndex?.get(route.sourceFile): getGitDatesForFiles gives null
\* without a repository or without output
DatesIndexGet(datesIndex, sourceFile) ==
    IF datesIndex.null THEN NoDatesEntry
    ELSE EntryAt(datesIndex.value, LastWith(datesIndex.value, sourceFile, FileKey))

RouteWithDates(route, dates, fallback) ==
    IF ~dates.found /\ ~fallback.found THEN DatedRoute(route.path, NoDate, NoDate)
    ELSE DatedRoute(route.path,
                    Nullish(dates.publishedAt, Nullish(fallback.publishedAt, route.publishedAt)),
                    Nullish(dates.updatedAt, Nullish(fallback.updatedAt, route.updatedAt)))

addMarketingRouteGitDates(datesIndex, routes, existingRoutes) ==
    [k \in DOMAIN routes |->
        RouteWithDates(routes[k], DatesIndexGet(datesIndex, routes[k].sourceFile),
                       FallbackDatesGet(existingRoutes, routes[k].path))]

\* generate.ts lines 104-117
marketingRoutesWithDates(useGitDates, datesIndex, routes, existingRoutes) ==
    IF useGitDates THEN addMarketingRouteGitDates(datesIndex, routes, existingRoutes)
    ELSE [k \in DOMAIN routes |->
             DatedRoute(routes[k].path, routes[k].publishedAt, routes[k].updatedAt)]

-----------------------------------------------------------------------------
(* core/markdown/delivery.ts and the Express adapter *)

TextMarkdown == <<"t","e","x","t","/","m","a","r","k","d","o","w","n">>

SlashIndex == <<"/","i","n","d","e","x">>

StripSuffix(value, extension) == SubSeq(value, 1, Len(value) - Len(extension))

\* a faulty variant of stripMarkdownExtension: the extension is cut off and
\* nothing else
stripMarkdownExtensionOnly(value, extension) ==
    IF ~EndsWith(value, extension) THEN value ELSE StripSuffix(value, extension)

stripMarkdownExtension(value, extension) ==
    IF ~EndsWith(value, extension) THEN value
    ELSE IF StripSuffix(value, extension) = <<>> \/ StripSuffix(value, extension) = SlashIndex
         THEN <<"/">>
         ELSE StripSuffix(value, extension)

\* accept.split(',').some(entry => entry.trim().startsWith('text/markdown'));
\* <<>> is an absent or empty header
EntryStartsWithTextMarkdown(entry) == StartsWith(Trim(entry), TextMarkdown)

isMarkdownAccept(accept) ==
    IF accept = <<>> THEN FALSE
    ELSE \E k \in DOMAIN Split(accept, ",") :
             EntryStartsWithTextMarkdown(Split(accept, ",")[k])

FormatMd == <<"m","d">>

\* a request-like value: method, url, the Accept header and query.format
\* (<<>> when absent)
Request(method, url, accept, format) ==
    [method |-> method, url |-> url, accept |-> accept, format |-> format]

isMarkdownRequest(config, req) ==
    IF EndsWith(normalizePath(req.url), config.extension) THEN TRUE
    ELSE IF config.enableAcceptNegotiation /\ isMarkdownAccept(req.accept) THEN TRUE
    ELSE IF config.enableQueryParam /\ req.format = FormatMd THEN TRUE
    ELSE FALSE

\* what maybeRenderMarkdown returns: null, or the response (its body is the
\* rendering of the content resolved for `target`)
NoResponse == [null |-> TRUE, status |-> 0, headers |-> <<>>, target |-> <<>>]

MarkdownResponse(target) ==
    [null |-> FALSE,
     status |-> 200,
     headers |-> <<[name |-> "Content-Type", value |-> "text/markdown; charset=utf-8"],
                   [name |-> "Vary", value |-> "Accept"]>>,
     target |-> target]

targetPathOf(config, requestPath) ==
    IF EndsWith(requestPath, config.extension)
    THEN stripMarkdownExtension(requestPath, config.extension)
    ELSE requestPath

RenderTarget(wants, targetPath, indexable, content) ==
    IF ~wants THEN NoResponse
    ELSE IF targetPath \notin indexable THEN NoResponse
    ELSE IF targetPath \notin content THEN NoResponse
    ELSE MarkdownResponse(targetPath)

\* maybeRenderMarkdown; isIndexable and resolveContent are given by the sets
\* of paths they accept
maybeRenderMarkdown(config, req, indexable, content) ==
    RenderTarget(isMarkdownRequest(config, req),
                 targetPathOf(config, normalizePath(req.url)),
                 indexable, content)

\* the calls the middleware makes on res for a response
RECURSIVE SetHeaderCalls(_)
SetHeaderCalls(headers) ==
    IF headers = <<>> THEN <<>>
    ELSE <<"setHeader " \o Head(headers).name \o ": " \o Head(headers).value>>
             \o SetHeaderCalls(Tail(headers))

RespondCalls(response) ==
    IF response.null THEN <<"next">>
    ELSE SetHeaderCalls(response.headers)
             \o <<"status " \o ToString(response.status), "send">>

\* a faulty variant of the handler: a deferred request is left unanswered
ExpressHandlerSilent(config, req, indexable, content) ==
    IF ToUpperCase(req.method) \notin {<<"G","E","T">>, <<"H","E","A","D">>}
    THEN <<"next">>
    ELSE IF maybeRenderMarkdown(config, req, indexable, content).null THEN <<>>
    ELSE RespondCalls(maybeRenderMarkdown(config, req, indexable, content))

\* the handler createExpressMarkdownMiddleware returns: the calls it makes,
\* in order
ExpressHandler(config, req, indexable, content) ==
    IF ToUpperCase(req.method) \notin {<<"G","E","T">>, <<"H","E","A","D">>}
    THEN <<"next">>
    ELSE RespondCalls(maybeRenderMarkdown(config, req, indexable, content))

-----------------------------------------------------------------------------
(* core/generation/llms.ts.  A text is the list of its lines (the pieces
   between its newline characters); a line is a sequence of characters. *)

RECURSIVE Flatten(_)
Flatten(seqs) == IF seqs = <<>> THEN <<>> ELSE Head(seqs) \o Flatten(Tail(seqs))

\* `- [${label}](${href})`
buildMarkdownLink(label, href) ==
    <<"-"," ","[">> \o label \o <<"]","(">> \o href \o <<")">>

defaultFooter == <<"H","u","m","a","n","-","f","r","i","e","n","d","l","y"," ","p","a","g","e","s"," ","a","r","e"," ","t","h","e"," ","s","a","m","e"," ","p","a","t","h","s"," ","w","i","t","h","o","u","t"," ",".","m","d",".">>

H2 == <<"#","#"," ">>

buildSectionLines(heading, lines) ==
    IF lines = <<>> THEN <<>> ELSE <<H2 \o heading>> \o lines \o << <<>> >>

\* sections.findIndex(...), 0-based; -1 when no heading matches
findSectionIndex(sections, keyword) ==
    LET matching == {k \in DOMAIN sections :
                        Includes(ToLowerCase(sections[k].heading), keyword)}
    IN  IF matching = {} THEN -1 ELSE SetMin(matching) - 1

AfterFound(sections, keyword) ==
    IF findSectionIndex(sections, keyword) = -1 THEN Len(sections)
    ELSE findSectionIndex(sections, keyword) + 1

\* a faulty variant of resolveArticlesInsertIndex: before-legal inserts after
\* the legal section
resolveArticlesInsertIndexAfterLegal(sections, placement) ==
    IF sections = <<>> THEN 0
    ELSE CASE placement = "after-docs" -> AfterFound(sections, <<"d","o","c">>)
           [] placement = "after-product" ->
                  AfterFound(sections, <<"p","r","o","d","u","c","t">>)
           [] placement = "after-company" ->
                  AfterFound(sections, <<"c","o","m","p","a","n","y">>)
           [] placement = "before-legal" -> AfterFound(sections, <<"l","e","g","a","l">>)
           [] OTHER -> Len(sections)

resolveArticlesInsertIndex(sections, placement) ==
    IF sections = <<>> THEN 0
    ELSE CASE placement = "after-docs" -> AfterFound(sections, <<"d","o","c">>)
           [] placement = "after-product" ->
                  AfterFound(sections, <<"p","r","o","d","u","c","t">>)
           [] placement = "after-company" ->
                  AfterFound(sections, <<"c","o","m","p","a","n","y">>)
           [] placement = "before-legal" ->
                  (IF findSectionIndex(sections, <<"l","e","g","a","l">>) = -1
                   THEN Len(sections)
                   ELSE findSectionIndex(sections, <<"l","e","g","a","l">>))
           [] OTHER -> Len(sections)

\* a configured section: heading, description lines, links
LlmsSection(heading, description, links) ==
    [heading |-> heading, description |-> description, links |-> links]

Link(label, href) == [label |-> label, href |-> href]

LinkLines(links) == [k \in DOMAIN links |-> buildMarkdownLink(links[k].label, links[k].href)]

\* lines 83-95: the block of a configured section
SectionBlock(section) ==
    [heading |-> section.heading,
     lines |-> buildSectionLines(section.heading,
                                 section.description \o LinkLines(section.links))]

\* lines 97-102
ArticlesLines(articleLinks) ==
    buildSectionLines(<<"A","r","t","i","c","l","e","s">>,
                      IF articleLinks # <<>> THEN LinkLines(articleLinks)
                      ELSE << <<"-"," ","(","N","o"," ","a","r","t","i","c","l","e","s"," ","l","i","s","t","e","d",")">> >>)

\* lines 108-116: the forEach over the blocks with the Articles block pushed
\* before block insertIndex (0-based), or last
OrderedWithArticles(blocks, articlesLines, insertIndex) ==
    Flatten([k \in DOMAIN blocks |->
                (IF k - 1 = insertIndex THEN articlesLines ELSE <<>>) \o blocks[k].lines])
        \o (IF insertIndex >= Len(blocks) THEN articlesLines ELSE <<>>)

\* lines 104-121
OrderedSections(blocks, articlesLines, articlesPlacement) ==
    IF articlesPlacement # "omit"
    THEN OrderedWithArticles(blocks, articlesLines,
                             resolveArticlesInsertIndex(blocks, articlesPlacement))
    ELSE Flatten([k \in DOMAIN blocks |-> blocks[k].lines])

IsBlankLine(line) == \A i \in DOMAIN line : IsSpace(line[i])

RECURSIVE TrimStart(_)
TrimStart(line) ==
    IF line # <<>> /\ IsSpace(line[1]) THEN TrimStart(Tail(line)) ELSE line

RECURSIVE TrimEnd(_)
TrimEnd(line) ==
    IF line # <<>> /\ IsSpace(line[Len(line)])
    THEN TrimEnd(SubSeq(line, 1, Len(line) - 1)) ELSE line

\* lines.join('\n').trim(), as lines: the blank lines at both ends go, and so
\* does the white space before the first and after the last character
TrimText(lines) ==
    LET inked == {k \in DOMAIN lines : ~IsBlankLine(lines[k])}
    IN  IF inked = {} THEN << <<>> >>
        ELSE IF SetMin(inked) = SetMax(inked) THEN <<Trim(lines[SetMin(inked)])>>
        ELSE <<TrimStart(lines[SetMin(inked)])>>
                 \o SubSeq(lines, SetMin(inked) + 1, SetMax(inked) - 1)
                 \o <<TrimEnd(lines[SetMax(inked)])>>

\* /\{\{\s*name\s*\}\}/ matching a whole template line
IsPlaceholderLine(line, name) ==
    /\ Len(line) >= 4
    /\ SubSeq(line, 1, 2) = <<"{","{">>
    /\ SubSeq(line, Len(line) - 1, Len(line)) = <<"}","}">>
    /\ Trim(SubSeq(line, 3, Len(line) - 2)) = name

\* text.replace(/\{\{\s*name\s*\}\}/g, replacement.join('\n')) on a template
\* whose placeholders stand on lines of their own; an empty replacement
\* leaves an empty line
ReplacePlaceholder(text, name, replacement) ==
    Flatten([k \in DOMAIN text |->
                IF IsPlaceholderLine(text[k], name)
                THEN (IF replacement = <<>> THEN << <<>> >> ELSE replacement)
                ELSE <<text[k]>>])

\* llms.title || config.siteName || 'Site'
LlmsTitle(config) ==
    IF config.llms.title # <<>> THEN config.llms.title
    ELSE IF config.siteName # <<>> THEN config.siteName
    ELSE <<"S","i","t","e">>

\* a || b on strings and lists; <<>> is an absent (or empty) string and an
\* absent list
OrElse(a, b) == IF a # <<>> THEN a ELSE b

\* llms.articlesPlacement || 'after-company'; "" is an absent placement
ArticlesPlacementOf(llms) ==
    IF llms.articlesPlacement = "" THEN "after-company" ELSE llms.articlesPlacement

\* lines 62-81: title, summary, contact and capabilities
LlmsHead(title, summary, contact, capabilities) ==
    <<<<"#"," ">> \o title>>
        \o (IF summary # <<>> THEN <<<<">"," ">> \o summary>> ELSE <<>>)
        \o << <<>> >>
        \o (IF contact # <<>>
            THEN <<<<"C","o","n","t","a","c","t",":"," ">> \o contact \o <<".">>, <<>> >>
            ELSE <<>>)
        \o (IF capabilities # <<>>
            THEN <<H2 \o <<"C","a","p","a","b","i","l","i","t","i","e","s">>>>
                     \o [k \in DOMAIN capabilities |-> <<"-"," ">> \o capabilities[k]]
                     \o << <<>> >>
            ELSE <<>>)

\* lines 125-136: the template with its placeholders replaced
LlmsFromTemplate(template, title, summary, contact, articlesLines, orderedSections, baseUrl) ==
    TrimText(
      ReplacePlaceholder(
        ReplacePlaceholder(
          ReplacePlaceholder(
            ReplacePlaceholder(
              ReplacePlaceholder(
                ReplacePlaceholder(template, <<"s","i","t","e","N","a","m","e">>, <<title>>),
                <<"s","u","m","m","a","r","y">>, <<summary>>),
              <<"c","o","n","t","a","c","t">>, <<contact>>),
            <<"a","r","t","i","c","l","e","s">>, articlesLines),
          <<"s","e","c","t","i","o","n","s">>, orderedSections),
        <<"b","a","s","e","U","r","l">>, <<baseUrl>>))

\* lines 104-142 once the head, the blocks and the Articles lines are known
LlmsBody(config, baseUrl, head, articlesLines, orderedSections) ==
    IF config.llms.template # <<>>
    THEN LlmsFromTemplate(config.llms.template, LlmsTitle(config),
                          OrElse(config.llms.summary, config.siteSummary),
                          OrElse(config.llms.contact, config.contact),
                          articlesLines, orderedSections, baseUrl)
    ELSE TrimText(head \o orderedSections
                      \o (IF config.llms.sections # <<>>
                             \/ ArticlesPlacementOf(config.llms) # "omit"
                          THEN <<defaultFooter>> ELSE <<>>))

\* buildLlmsTxt; the returned text ends with a newline after its last line
buildLlmsTxt(options) ==
    LlmsBody(options.config, options.baseUrl,
             LlmsHead(LlmsTitle(options.config),
                      OrElse(options.config.llms.summary, options.config.siteSummary),
                      OrElse(options.config.llms.contact, options.config.contact),
                      OrElse(options.config.llms.capabilities, options.config.capabilities)),
             ArticlesLines(options.articleLinks),
             OrderedSections([k \in DOMAIN options.config.llms.sections |->
                                 SectionBlock(options.config.llms.sections[k])],
                             ArticlesLines(options.articleLinks),
                             ArticlesPlacementOf(options.config.llms)))

-----------------------------------------------------------------------------
(* core/markdown/shared.ts.  A markdown document is the list of its lines;
   the block tokens are those marked's lexer gives for the forms the
   renderer writes and the content files use: blank lines, ATX headings,
   lists of one-line items and paragraphs. *)

\* the first position from `from` on where the character c stands, 0 if none
IndexOfChar(s, c, from) ==
    LET hits == {i \in from..Len(s) : s[i] = c}
    IN  IF hits = {} THEN 0 ELSE SetMin(hits)

\* the length of the run of characters other than c at the head of s
RECURSIVE RunOfNot(_, _)
RunOfNot(s, c) == IF s # <<>> /\ s[1] # c THEN 1 + RunOfNot(Tail(s), c) ELSE 0

\* s.replace(/D([^c]+)D/g, '$1') for a delimiter D made of the character c
RECURSIVE UnwrapDelimited(_, _, _)

\* s opens with the delimiter (n characters), inner characters other than c
\* follow it
UnwrapFrom(s, delim, c, n, inner) ==
    IF inner >= 1 /\ StartsWith(SubSeq(s, n + inner + 1, Len(s)), delim)
    THEN SubSeq(s, n + 1, n + inner)
             \o UnwrapDelimited(SubSeq(s, 2 * n + inner + 1, Len(s)), delim, c)
    ELSE <<s[1]>> \o UnwrapDelimited(Tail(s), delim, c)

UnwrapDelimited(s, delim, c) ==
    IF s = <<>> THEN <<>>
    ELSE IF StartsWith(s, delim)
    THEN UnwrapFrom(s, delim, c, Len(delim), RunOfNot(SubSeq(s, Len(delim) + 1, Len(s)), c))
    ELSE <<s[1]>> \o UnwrapDelimited(Tail(s), delim, c)

\* the positions j of a "](" that closes a label opened at position 1 and
\* is itself closed by a ")" with an href between: /\[(.+?)\]\((.+?)\)/
LinkClosers(s) ==
    {j \in 3..(Len(s) - 3) :
        /\ s[j] = "]"
        /\ s[j + 1] = "("
        /\ IndexOfChar(s, ")", j + 3) # 0
        /\ \A k \in 2..IndexOfChar(s, ")", j + 3) : s[k] # "\n"}

\* the link that starts at the head of s
LinkClosedAt(s, j, k) ==
    [found |-> TRUE, label |-> SubSeq(s, 2, j - 1), href |-> SubSeq(s, j + 2, k - 1), end |-> k]

LinkFrom(s, j) == LinkClosedAt(s, j, IndexOfChar(s, ")", j + 3))

LinkAmong(s, closers) ==
    IF closers = {} THEN [found |-> FALSE, label |-> <<>>, href |-> <<>>, end |-> 0]
    ELSE LinkFrom(s, SetMin(closers))

LinkAt(s) ==
    IF s = <<>> \/ s[1] # "[" THEN [found |-> FALSE, label |-> <<>>, href |-> <<>>, end |-> 0]
    ELSE LinkAmong(s, LinkClosers(s))

\* s.replace(/\[(.+?)\]\((.+?)\)/g, '$1')
RECURSIVE UnwrapLinks(_)

UnwrapLinkAt(s, link) ==
    IF link.found THEN link.label \o UnwrapLinks(SubSeq(s, link.end + 1, Len(s)))
    ELSE <<s[1]>> \o UnwrapLinks(Tail(s))

UnwrapLinks(s) ==
    IF s = <<>> THEN <<>>
    ELSE IF s[1] = "[" THEN UnwrapLinkAt(s, LinkAt(s))
    ELSE <<s[1]>> \o UnwrapLinks(Tail(s))

\* s.replace(/\s+/g, ' ')
RECURSIVE CollapseWhitespace(_)
CollapseWhitespace(s) ==
    IF s = <<>> THEN <<>>
    ELSE IF IsSpace(s[1])
         THEN <<" ">> \o CollapseWhitespace(TrimStart(s))
         ELSE <<s[1]>> \o CollapseWhitespace(Tail(s))

\* the grave accent (U+0060), which no string literal can hold
GraveAccent == "grave"

stripMarkdown(value) ==
    Trim(CollapseWhitespace(UnwrapLinks(
        UnwrapDelimited(UnwrapDelimited(UnwrapDelimited(value, <<GraveAccent>>, GraveAccent),
                                        <<"*","*">>, "*"),
                        <<"_">>, "_"))))

\* the positions q of a separator `-` or `:` that /^(.+?)\s*(?:-|:)\s+(.+)$/
\* can use, each with the shortest title that reaches it
TitleSeparators(cleaned) ==
    {q \in 2..(Len(cleaned) - 2) :
        /\ cleaned[q] \in {"-", ":"}
        /\ IsSpace(cleaned[q + 1])
        /\ \A k \in 1..Len(cleaned) : cleaned[k] # "\n"}

\* the shortest title: the least n >= 1 from which only white space leads to
\* a separator
TitleEnds(cleaned) ==
    {n \in 1..Len(cleaned) :
        \E q \in TitleSeparators(cleaned) :
            /\ n < q
            /\ \A k \in (n + 1)..(q - 1) : IsSpace(cleaned[k])}

TitleDescription(title, description) == [title |-> title, description |-> description]

\* the separator that the title ending at n reaches
SeparatorAfter(cleaned, n) ==
    SetMin({p \in TitleSeparators(cleaned) :
               /\ n < p
               /\ \A k \in (n + 1)..(p - 1) : IsSpace(cleaned[k])})

TitleDescriptionAt(cleaned, n, q) ==
    TitleDescription(Trim(SubSeq(cleaned, 1, n)), Trim(SubSeq(cleaned, q + 1, Len(cleaned))))

TitleDescriptionOf(cleaned, ends) ==
    IF ends = {} THEN TitleDescription(cleaned, <<>>)
    ELSE TitleDescriptionAt(cleaned, SetMin(ends), SeparatorAfter(cleaned, SetMin(ends)))

TitleDescriptionIn(cleaned) == TitleDescriptionOf(cleaned, TitleEnds(cleaned))

parseTitleDescription(value) == TitleDescriptionIn(stripMarkdown(value))

Faq(question, answer) == [question |-> question, answer |-> answer]

NoFaq == [question |-> <<>>, answer |-> <<>>]

\* /^\s*\*\*([^*]+)\*\*\s*(.+)$/ on the item as written: the question is
\* the bold text at its head, the answer what follows
BoldQuestionOf(s, inner) ==
    IF /\ StartsWith(s, <<"*","*">>)
       /\ inner >= 1
       /\ StartsWith(SubSeq(s, inner + 3, Len(s)), <<"*","*">>)
       /\ Len(s) >= inner + 5
       /\ \A k \in (inner + 5)..Len(s) : s[k] # "\n"
    THEN [found |-> TRUE, question |-> SubSeq(s, 3, inner + 2),
          answer |-> SubSeq(s, inner + 5, Len(s))]
    ELSE [found |-> FALSE, question |-> <<>>, answer |-> <<>>]

BoldQuestionIn(s) == BoldQuestionOf(s, RunOfNot(SubSeq(s, 3, Len(s)), "*"))

BoldQuestion(value) == BoldQuestionIn(TrimStart(value))

\* null is NoFaq
QuestionAnswerAt(cleaned, idx) ==
    IF /\ idx # 0
       /\ idx < Len(cleaned)
       /\ Trim(SubSeq(cleaned, 1, idx)) # <<>>
       /\ Trim(SubSeq(cleaned, idx + 1, Len(cleaned))) # <<>>
    THEN Faq(Trim(SubSeq(cleaned, 1, idx)), Trim(SubSeq(cleaned, idx + 1, Len(cleaned))))
    ELSE NoFaq

QuestionAnswerOf(bold, cleaned) ==
    IF bold.found THEN Faq(stripMarkdown(bold.question), stripMarkdown(bold.answer))
    ELSE QuestionAnswerAt(cleaned, IndexOfChar(cleaned, "?", 1))

parseQuestionAnswer(value) == QuestionAnswerOf(BoldQuestion(value), stripMarkdown(value))

SeoLink(label, href) == [label |-> label, href |-> href]

\* the links of one line, in order of appearance
RECURSIVE LinksOfLine(_)

LinksFrom(s, link) ==
    IF link.found
    THEN <<SeoLink(stripMarkdown(link.label), Trim(link.href))>>
             \o LinksOfLine(SubSeq(s, link.end + 1, Len(s)))
    ELSE LinksOfLine(Tail(s))

LinksOfLine(s) ==
    IF s = <<>> THEN <<>>
    ELSE IF s[1] = "[" THEN LinksFrom(s, LinkAt(s))
    ELSE LinksOfLine(Tail(s))

\* extractLinks of a text given as its lines (no link spans a line end)
extractLinks(lines) == Flatten([k \in DOMAIN lines |-> LinksOfLine(lines[k])])

MetaKeyChar(c) == c \in Range(Upper) \cup Range(Lower) \cup Digits \cup {"_", "-"}

RECURSIVE MetaKeyRun(_)
MetaKeyRun(s) == IF s # <<>> /\ MetaKeyChar(s[1]) THEN 1 + MetaKeyRun(Tail(s)) ELSE 0

\* a metadata value: a string, or a list of strings
MetaString(text) == [list |-> FALSE, text |-> text, items |-> <<>>]

MetaList(items) == [list |-> TRUE, text |-> <<>>, items |-> items]

\* /^([A-Za-z0-9_-]+)\s*:(.*)$/ on a line without leading white space
MetaLineOf(s, r, after) ==
    IF r >= 1 /\ after # <<>> /\ after[1] = ":"
    THEN [match |-> TRUE, key |-> SubSeq(s, 1, r), rest |-> Tail(after)]
    ELSE [match |-> FALSE, key |-> <<>>, rest |-> <<>>]

MetaLineWith(s, r) == MetaLineOf(s, r, TrimStart(SubSeq(s, r + 1, Len(s))))

MetaLine(s) == MetaLineWith(s, MetaKeyRun(s))

MetaBody(meta, lines) == [meta |-> meta, body |-> lines]

\* the index (from 1) of the first line that is not blank, Len + 1 if none
FirstInkedLine(lines) ==
    LET inked == {k \in DOMAIN lines : ~IsBlankLine(lines[k])}
    IN  IF inked = {} THEN Len(lines) + 1 ELSE SetMin(inked)

TrimAll(pieces) == [k \in DOMAIN pieces |-> Trim(pieces[k])]

\* trimmed.replace(/^[-\s]+/, '').trim()
RECURSIVE StripListMarker(_)
StripListMarker(s) ==
    IF s # <<>> /\ (s[1] = "-" \/ IsSpace(s[1])) THEN StripListMarker(Tail(s)) ELSE Trim(s)

\* the loop of parseFrontMatter from the line after the opening `---`;
\* currentListKey is <<>> for null
RECURSIVE FrontMatterLoop(_, _, _, _)

\* a `key: value` line of the front matter
FrontMatterEntry(lines, index, meta, key, value) ==
    IF value = <<>>
    THEN FrontMatterLoop(lines, index + 1, SetKey(meta, key, MetaList(<<>>)), key)
    ELSE IF StartsWith(value, <<"[">>) /\ EndsWith(value, <<"]">>)
    THEN FrontMatterLoop(lines, index + 1,
             SetKey(meta, key,
                    MetaList(FilterBoolean(TrimAll(
                        Split(SubSeq(value, 2, Len(value) - 1), ","))))),
             <<>>)
    ELSE FrontMatterLoop(lines, index + 1, SetKey(meta, key, MetaString(value)), <<>>)

\* an item line under the list key
FrontMatterItem(lines, index, meta, currentListKey, value) ==
    FrontMatterLoop(lines, index + 1,
        IF value = <<>> THEN meta
        ELSE SetKey(meta, currentListKey,
                    MetaList(Append(Lookup(meta, currentListKey).items, value))),
        currentListKey)

FrontMatterLine(lines, index, meta, currentListKey, trimmed, m) ==
    IF trimmed = <<"-","-","-">>
    THEN MetaBody(meta, SubSeq(lines, index + 1, Len(lines)))
    ELSE IF trimmed = <<>>
    THEN FrontMatterLoop(lines, index + 1, meta, <<>>)
    ELSE IF currentListKey # <<>> /\ StartsWith(trimmed, <<"-">>)
    THEN FrontMatterItem(lines, index, meta, currentListKey, StripListMarker(trimmed))
    ELSE IF ~m.match
    THEN FrontMatterLoop(lines, index + 1, meta, currentListKey)
    ELSE FrontMatterEntry(lines, index, meta, ToLowerCase(Trim(m.key)), Trim(m.rest))

FrontMatterAt(lines, index, meta, currentListKey, trimmed) ==
    FrontMatterLine(lines, index, meta, currentListKey, trimmed, MetaLine(trimmed))

FrontMatterLoop(lines, index, meta, currentListKey) ==
    IF index > Len(lines) THEN MetaBody(meta, <<>>)
    ELSE FrontMatterAt(lines, index, meta, currentListKey, Trim(lines[index]))

FrontMatterFrom(markdown, index) ==
    IF index > Len(markdown) \/ Trim(markdown[index]) # <<"-","-","-">>
    THEN MetaBody(<<>>, markdown)
    ELSE FrontMatterLoop(markdown, index + 1, <<>>, <<>>)

parseFrontMatter(markdown) == FrontMatterFrom(markdown, FirstInkedLine(markdown))

\* the loop of parseMetaBlock from the line after `[meta]`: a blank line
\* ends the block and is dropped, a line that is no `key: value` ends it and
\* stays in the body
RECURSIVE MetaBlockLoop(_, _, _)

MetaBlockLine(lines, index, meta, m) ==
    IF IsBlankLine(lines[index])
    THEN MetaBody(meta, SubSeq(lines, index + 1, Len(lines)))
    ELSE IF ~(m.match /\ m.rest # <<>>)
    THEN MetaBody(meta, SubSeq(lines, index, Len(lines)))
    ELSE MetaBlockLoop(lines, index + 1,
             SetKey(meta, ToLowerCase(Trim(m.key)), MetaString(Trim(m.rest))))

MetaBlockLoop(lines, index, meta) ==
    IF index > Len(lines) THEN MetaBody(meta, <<>>)
    ELSE MetaBlockLine(lines, index, meta, MetaLine(TrimStart(lines[index])))

MetaBlockFrom(markdown, index) ==
    IF index > Len(markdown)
       \/ ToLowerCase(Trim(markdown[index])) # <<"[","m","e","t","a","]">>
    THEN MetaBody(<<>>, markdown)
    ELSE MetaBlockLoop(markdown, index + 1, <<>>)

parseMetaBlock(markdown) == MetaBlockFrom(markdown, FirstInkedLine(markdown))

\* every key trimmed and lower-cased, a later entry replacing an earlier one
\* of the same resulting key
RECURSIVE NormalizeMetaLoop(_, _)
NormalizeMetaLoop(entries, normalized) ==
    IF entries = <<>> THEN normalized
    ELSE NormalizeMetaLoop(Tail(entries),
             SetKey(normalized, ToLowerCase(Trim(Head(entries).key)), Head(entries).value))

normalizeMeta(meta) == NormalizeMetaLoop(meta, <<>>)

\* typeof meta[key] === 'string' ? meta[key] : ''
MetaText(meta, key) ==
    IF HasKey(meta, key) /\ ~Lookup(meta, key).list THEN Lookup(meta, key).text ELSE <<>>

\* ---- marked.lexer on the block forms above

RECURSIVE LeadingCount(_, _)
LeadingCount(s, c) == IF s # <<>> /\ s[1] = c THEN 1 + LeadingCount(Tail(s), c) ELSE 0

RECURSIVE DigitRun(_)
DigitRun(s) == IF s # <<>> /\ s[1] \in Digits THEN 1 + DigitRun(Tail(s)) ELSE 0

\* the line without its indentation, when that is at most three spaces
Unindented(line) ==
    IF LeadingCount(line, " ") <= 3 THEN SubSeq(line, LeadingCount(line, " ") + 1, Len(line))
    ELSE line

\* / {0,3}(#{1,6})(?=\s|$)(.*)/ : the depth of an ATX heading line, 0 if the
\* line is none
HeadingDepthOf(s, n) ==
    IF n \in 1..6 /\ (Len(s) = n \/ IsSpace(s[n + 1])) THEN n ELSE 0

HeadingDepth(line) == HeadingDepthOf(Unindented(line), LeadingCount(Unindented(line), "#"))

\* the text of a heading line: trimmed, a closing run of #s dropped when it
\* stands alone or after a space
StripClosingHashes(text, trimmed) ==
    IF EndsWith(text, <<"#">>) /\ (trimmed = <<>> \/ EndsWith(trimmed, <<" ">>))
    THEN Trim(trimmed) ELSE text

\* the text up to its last character that is no #
BeforeClosingHashes(text, keep) == IF keep = {} THEN <<>> ELSE SubSeq(text, 1, SetMax(keep))

HeadingTextOf(text) ==
    StripClosingHashes(text, BeforeClosingHashes(text, {i \in DOMAIN text : text[i] # "#"}))

HeadingText(line) ==
    HeadingTextOf(Trim(SubSeq(Unindented(line), LeadingCount(Unindented(line), "#") + 1,
                              Len(Unindented(line)))))

\* the length of a list marker (bullet, or number with . or ")") and the
\* space after it at the head of the unindented line, 0 if there is none
ListMarkerOf(s, d) ==
    IF s # <<>> /\ s[1] \in {"-", "*", "+"} /\ Len(s) >= 2 /\ s[2] = " " THEN 2
    ELSE IF d \in 1..9 /\ Len(s) >= d + 2 /\ s[d + 1] \in {".", ")"} /\ s[d + 2] = " "
         THEN d + 2
    ELSE 0

ListMarker(line) == ListMarkerOf(Unindented(line), DigitRun(Unindented(line)))

\* a line made of the character c alone, at least n times
IsRun(s, c, n) == Len(s) >= n /\ \A i \in DOMAIN s : s[i] = c

IsRule(line, c, n) == IsRun(TrimEnd(Unindented(line)), c, n)

LineKind(line) ==
    IF IsBlankLine(line) THEN "space"
    ELSE IF HeadingDepth(line) > 0 THEN "heading"
    ELSE IF IsRule(line, "-", 3) THEN "hr"
    ELSE IF ListMarker(line) > 0 THEN "list"
    ELSE "paragraph"

\* the underline of a setext heading
IsUnderline(line) == IsRule(line, "=", 1) \/ IsRule(line, "-", 1)

RECURSIVE KindRun(_, _)
KindRun(lines, kind) ==
    IF lines # <<>> /\ LineKind(lines[1]) = kind THEN 1 + KindRun(Tail(lines), kind) ELSE 0

\* the lines of the paragraph after its first line
RECURSIVE ParagraphRest(_)
ParagraphRest(lines) ==
    IF lines # <<>> /\ LineKind(lines[1]) = "paragraph" /\ ~IsUnderline(lines[1])
    THEN 1 + ParagraphRest(Tail(lines)) ELSE 0

Token(type, depth, text, items, raw) ==
    [type |-> type, depth |-> depth, text |-> text, items |-> items, raw |-> raw]

ItemTextOf(s, marker) == Trim(SubSeq(s, marker + 1, Len(s)))

ItemText(line) == ItemTextOf(Unindented(line), ListMarker(line))

RECURSIVE Lexer(_)

\* whether the paragraph of p lines at the head is underlined
IsSetext(lines, kind, p) ==
    kind = "paragraph" /\ Len(lines) > p /\ IsUnderline(lines[p + 1])

\* the number of lines the token at the head takes
TokenLength(lines, kind, p) ==
    IF kind \in {"heading", "hr"} THEN 1
    ELSE IF kind = "paragraph" THEN (IF IsSetext(lines, kind, p) THEN p + 1 ELSE p)
    ELSE KindRun(lines, kind)

TokenOf(lines, kind, p, raw) ==
    CASE kind = "heading" ->
             Token(kind, HeadingDepth(lines[1]), HeadingText(lines[1]), <<>>, raw)
      [] kind = "list" ->
             Token(kind, 0, <<>>, [k \in DOMAIN raw |-> ItemText(raw[k])], raw)
      [] kind = "paragraph" /\ IsSetext(lines, kind, p) ->
             Token("heading", IF IsRule(lines[p + 1], "=", 1) THEN 1 ELSE 2,
                   Join(SubSeq(lines, 1, p), <<"\n">>), <<>>, raw)
      [] kind = "paragraph" ->
             Token(kind, 0, Join(raw, <<"\n">>), <<>>, raw)
      [] OTHER -> Token(kind, 0, <<>>, <<>>, raw)

LexerFrom(lines, kind, p, n) ==
    <<TokenOf(lines, kind, p, SubSeq(lines, 1, n))>> \o Lexer(SubSeq(lines, n + 1, Len(lines)))

LexerOf(lines, kind, p) == LexerFrom(lines, kind, p, TokenLength(lines, kind, p))

Lexer(lines) ==
    IF lines = <<>> THEN <<>>
    ELSE LexerOf(lines, LineKind(lines[1]), 1 + ParagraphRest(Tail(lines)))

\* ---- sections and their readers

MarkdownSection(heading, tokens, raw) == [heading |-> heading, tokens |-> tokens, raw |-> raw]

\* current is <<>> for null, else a one-element list holding the section
RECURSIVE SectionsLoop(_, _, _)
SectionsLoop(tokens, sections, current) ==
    IF tokens = <<>> THEN sections \o current
    ELSE LET token == Head(tokens)
         IN  IF token.type = "heading" /\ token.depth = 2
             THEN SectionsLoop(Tail(tokens), sections \o current,
                               <<MarkdownSection(token.text, <<>>, <<>>)>>)
             ELSE IF current # <<>>
             THEN SectionsLoop(Tail(tokens), sections,
                               <<MarkdownSection(current[1].heading,
                                                 Append(current[1].tokens, token),
                                                 current[1].raw \o token.raw)>>)
             ELSE SectionsLoop(Tail(tokens), sections, current)

buildSectionsFromTokens(tokens) == SectionsLoop(tokens, <<>>, <<>>)

FirstOrEmpty(texts) == IF texts = <<>> THEN <<>> ELSE texts[1]

IsParagraph(token) == token.type = "paragraph"

IsList(token) == token.type = "list"

StrippedTexts(tokens) == [k \in DOMAIN tokens |-> stripMarkdown(tokens[k].text)]

extractParagraphText(tokens) == FirstOrEmpty(StrippedTexts(SelectSeq(tokens, IsParagraph)))

extractParagraphs(tokens) == FilterBoolean(StrippedTexts(SelectSeq(tokens, IsParagraph)))

ItemsOf(lists) == Flatten([k \in DOMAIN lists |-> lists[k].items])

extractListItems(tokens) == FilterBoolean(ItemsOf(SelectSeq(tokens, IsList)))

HasTitle(item) == item.title # <<>>

TitleDescriptions(items) == [k \in DOMAIN items |-> parseTitleDescription(items[k])]

parseSteps(section) == SelectSeq(TitleDescriptions(extractListItems(section.tokens)), HasTitle)

SeoTrust(title, items) == [set |-> TRUE, title |-> title, items |-> items]

NoTrust == [set |-> FALSE, title |-> <<>>, items |-> <<>>]

parseTrust(section) == SeoTrust(section.heading, parseSteps(section))

IsFaq(item) == item # NoFaq

QuestionAnswers(items) == [k \in DOMAIN items |-> parseQuestionAnswer(items[k])]

parseFaqs(section) == SelectSeq(QuestionAnswers(extractListItems(section.tokens)), IsFaq)

parseLinks(section) == extractLinks(section.raw)

SeoCta(label, href, note) == [set |-> TRUE, label |-> label, href |-> href, note |-> note]

\* null / undefined
NoCta == [set |-> FALSE, label |-> <<>>, href |-> <<>>, note |-> <<>>]

\* note.replace(new RegExp(`\\s*${label}\\s*$`), '').trim() on a trimmed note
StripTrailingLabel(note, label) ==
    IF EndsWith(note, label) THEN Trim(SubSeq(note, 1, Len(note) - Len(label))) ELSE Trim(note)

CtaOf(links, note) ==
    IF links = <<>> THEN NoCta
    ELSE SeoCta(links[1].label, links[1].href,
                IF note # <<>> /\ links[1].label # <<>>
                THEN StripTrailingLabel(note, links[1].label) ELSE note)

parseCta(section) == CtaOf(extractLinks(section.raw), extractParagraphText(section.tokens))

SeoPricing(headline, detail) == [set |-> TRUE, headline |-> headline, detail |-> detail]

NoPricing == [set |-> FALSE, headline |-> <<>>, detail |-> <<>>]

PricingOf(paragraphs) ==
    IF paragraphs = <<>> THEN NoPricing
    ELSE IF Len(paragraphs) = 1
         THEN SeoPricing(<<"P","r","i","c","i","n","g">>, paragraphs[1])
    ELSE SeoPricing(paragraphs[1], paragraphs[2])

parsePricing(section) == PricingOf(extractParagraphs(section.tokens))

StripAll(items) == [k \in DOMAIN items |-> stripMarkdown(items[k])]

parseFeatureList(section) == StripAll(extractListItems(section.tokens))

normalizeHeading(value) == ToLowerCase(Trim(value))

\* heading || titleCase(heading): titleCase is only reached with '', which
\* it returns
defaultSectionHeading(heading) == IF heading # <<>> THEN heading ELSE <<>>

IsFirstLevelHeading(token) == token.type = "heading" /\ token.depth = 1

\* the paragraphs that follow the first depth-1 heading
RECURSIVE ParagraphsAfterH1(_, _)
ParagraphsAfterH1(tokens, seenH1) ==
    IF tokens = <<>> THEN <<>>
    ELSE IF IsFirstLevelHeading(Head(tokens)) THEN ParagraphsAfterH1(Tail(tokens), TRUE)
    ELSE IF seenH1 /\ IsParagraph(Head(tokens))
         THEN <<Head(tokens)>> \o ParagraphsAfterH1(Tail(tokens), seenH1)
    ELSE ParagraphsAfterH1(Tail(tokens), seenH1)

Summary(tokens, title, heading, description) ==
    [tokens |-> tokens, title |-> title, heading |-> heading, description |-> description]

\* the title (and heading) is the text of the first depth-1 heading that has
\* one, the description the first paragraph with text after the first
\* depth-1 heading
SummaryTitle(h1) == FirstOrEmpty(FilterBoolean(StrippedTexts(h1)))

SummaryOf(tokens, title) ==
    Summary(tokens, title, title,
            FirstOrEmpty(extractParagraphs(ParagraphsAfterH1(tokens, FALSE))))

SummaryOfTokens(tokens) ==
    SummaryOf(tokens, SummaryTitle(SelectSeq(tokens, IsFirstLevelHeading)))

parseTokensForSummary(body) == SummaryOfTokens(Lexer(body))

-----------------------------------------------------------------------------
(* core/markdown/parser.ts and core/markdown/marketing_parser.ts *)

StepsHeadings ==
    {<<"h","o","w"," ","i","t"," ","w","o","r","k","s">>,
     <<"s","t","e","p","-","b","y","-","s","t","e","p">>,
     <<"s","t","e","p"," ","b","y"," ","s","t","e","p">>,
     <<"s","t","e","p","s">>}

PricingHeadings == {<<"p","r","i","c","i","n","g">>}

TrustHeadings ==
    {<<"t","r","u","s","t">>,
     <<"w","h","a","t"," ","h","a","p","p","e","n","s"," ","t","o"," ","y","o","u","r"," ","d","o","c","u","m","e","n","t">>}

\* the FAQ headings of parseMarketingMarkdown
MarketingFaqHeadings == {<<"f","a","q","s">>, <<"f","a","q">>}

\* the FAQ headings of parseMarkdownContent
FaqHeadings ==
    MarketingFaqHeadings \cup
    {<<"p","r","i","c","i","n","g"," ","f","a","q","s">>,
     <<"d","e","l","i","v","e","r","y"," ","f","a","q","s">>}

ResourcesHeadings == {<<"r","e","s","o","u","r","c","e","s">>}

RelatedHeadings ==
    {<<"r","e","l","a","t","e","d">>,
     <<"r","e","l","a","t","e","d"," ","u","s","e"," ","c","a","s","e","s">>,
     <<"r","e","l","a","t","e","d"," ","l","i","n","k","s">>}

\* the feature headings of parseMarketingMarkdown
MarketingFeatureHeadings ==
    {<<"f","e","a","t","u","r","e","s">>,
     <<"f","e","a","t","u","r","e"," ","l","i","s","t">>,
     <<"f","e","a","t","u","r","e","-","l","i","s","t">>}

\* the feature headings of parseMarkdownContent
FeatureHeadings ==
    MarketingFeatureHeadings \cup
    {<<"w","h","a","t"," ","i","s"," ","i","n","c","l","u","d","e","d">>,
     <<"w","h","a","t"," ","y","o","u"," ","g","e","t">>}

CtaHeadings ==
    {<<"r","e","a","d","y"," ","t","o"," ","s","e","n","d"," ","i","t","?">>,
     <<"r","e","a","d","y"," ","t","o"," ","s","e","n","d">>,
     <<"n","e","x","t"," ","s","t","e","p">>,
     <<"n","e","x","t"," ","s","t","e","p","s">>,
     <<"c","t","a">>}

SeoSection(heading, markdown) == [heading |-> heading, markdown |-> markdown]

\* the locals of the section loop before its first iteration; an undefined
\* list is the empty list
NoFragments ==
    [steps |-> <<>>, pricing |-> NoPricing, trust |-> NoTrust, faqs |-> <<>>,
     resourceLinks |-> <<>>, relatedLinks |-> <<>>, featureList |-> <<>>,
     cta |-> NoCta, extraSections |-> <<>>]

\* one iteration of `for (const section of sections)`; static tells the
\* loop of parseMarkdownContent from that of parseMarketingMarkdown
KeepOr(kept, fragment) == IF fragment.set THEN fragment ELSE kept

ClassifyAs(section, got, static, normalized) ==
    IF normalized \in StepsHeadings THEN [got EXCEPT !.steps = parseSteps(section)]
    ELSE IF normalized \in PricingHeadings
    THEN [got EXCEPT !.pricing = KeepOr(@, parsePricing(section))]
    ELSE IF normalized \in TrustHeadings THEN [got EXCEPT !.trust = parseTrust(section)]
    ELSE IF normalized \in (IF static THEN FaqHeadings ELSE MarketingFaqHeadings)
    THEN [got EXCEPT !.faqs = parseFaqs(section)]
    ELSE IF normalized \in ResourcesHeadings
    THEN [got EXCEPT !.resourceLinks = parseLinks(section)]
    ELSE IF normalized \in RelatedHeadings
    THEN [got EXCEPT !.relatedLinks = parseLinks(section)]
    ELSE IF normalized \in (IF static THEN FeatureHeadings ELSE MarketingFeatureHeadings)
    THEN [got EXCEPT !.featureList = parseFeatureList(section)]
    ELSE IF normalized \in CtaHeadings
    THEN [got EXCEPT !.cta = KeepOr(@, parseCta(section))]
    ELSE IF \A k \in DOMAIN section.raw : IsBlankLine(section.raw[k]) THEN got
    ELSE [got EXCEPT !.extraSections =
              Append(@, SeoSection(IF static THEN defaultSectionHeading(section.heading)
                                   ELSE section.heading,
                                   Join(TrimText(section.raw), <<"\n">>)))]

\* a variant that compares the heading as written
ClassifySectionAsWritten(section, got, static) ==
    ClassifyAs(section, got, static, section.heading)

ClassifySection(section, got, static) ==
    ClassifyAs(section, got, static, normalizeHeading(section.heading))

RECURSIVE ClassifyLoop(_, _, _)
ClassifyLoop(sections, got, static) ==
    IF sections = <<>> THEN got
    ELSE ClassifyLoop(Tail(sections), ClassifySection(Head(sections), got, static), static)

\* a variant in which the metadata pair comes before the section
MetaOrCta(cta, metaCta) ==
    IF metaCta.label # <<>> /\ metaCta.href # <<>> THEN metaCta ELSE cta

\* if (!cta && metaCtaLabel && metaCtaHref) cta = {label, href, note}
CtaOrMeta(cta, metaCta) ==
    IF ~cta.set /\ metaCta.label # <<>> /\ metaCta.href # <<>> THEN metaCta ELSE cta

\* what both parsers return, from the stripped metadata fields, the
\* summary and the fragments
ParsedFields(meta, body, summary, got, metaTitle, metaHeading, metaDescription, metaSeoTitle, metaCta) ==
    [done |-> TRUE,
     meta |-> meta,
     body |-> body,
     title |-> OrElse(metaTitle, summary.title),
     heading |-> OrElse(metaHeading,
                        OrElse(summary.heading, OrElse(metaTitle, summary.title))),
     description |-> OrElse(metaDescription, summary.description),
     seoTitle |-> metaSeoTitle,
     seoDescription |-> stripMarkdown(MetaText(meta, <<"s","e","o","-","d","e","s","c","r","i","p","t","i","o","n">>)),
     steps |-> got.steps,
     pricing |-> got.pricing,
     trust |-> got.trust,
     faqs |-> got.faqs,
     cta |-> CtaOrMeta(got.cta, metaCta),
     relatedLinks |-> got.relatedLinks,
     resourceLinks |-> got.resourceLinks,
     featureList |-> got.featureList,
     extraSections |-> got.extraSections]

ParsedMarkdown(meta, body, summary, got) ==
    ParsedFields(meta, body, summary, got,
                 stripMarkdown(MetaText(meta, <<"t","i","t","l","e">>)),
                 stripMarkdown(MetaText(meta, <<"h","e","a","d","i","n","g">>)),
                 stripMarkdown(MetaText(meta, <<"d","e","s","c","r","i","p","t","i","o","n">>)),
                 stripMarkdown(OrElse(MetaText(meta, <<"s","e","o","t","i","t","l","e">>),
                                      MetaText(meta, <<"s","e","o","-","t","i","t","l","e">>))),
                 SeoCta(stripMarkdown(MetaText(meta, <<"c","t","a","-","l","a","b","e","l">>)),
                        Trim(MetaText(meta, <<"c","t","a","-","h","r","e","f">>)),
                        stripMarkdown(MetaText(meta, <<"c","t","a","-","n","o","t","e">>))))

ParseWith(meta, body, summary, static) ==
    ParsedMarkdown(meta, body, summary,
                   ClassifyLoop(buildSectionsFromTokens(summary.tokens), NoFragments, static))

ParseFrom(metaSource, static) ==
    ParseWith(normalizeMeta(metaSource.meta), metaSource.body,
              parseTokensForSummary(metaSource.body), static)

FrontMatterOrMetaBlock(frontMatter, markdown) ==
    IF frontMatter.meta # <<>> THEN frontMatter ELSE parseMetaBlock(markdown)

\* front matter first, the [meta] block when the front matter has no key
parseMarkdownContent(markdown) ==
    ParseFrom(FrontMatterOrMetaBlock(parseFrontMatter(markdown), markdown), TRUE)

parseMarketingMarkdown(markdown) == ParseFrom(parseMetaBlock(markdown), FALSE)

-----------------------------------------------------------------------------
(* core/markdown/renderer.ts.  The renderer builds one string, line ends
   included; its lines are what the parsers read. *)

NL == <<"\n">>

buildFrontMatterLine(key, value) == key \o <<":"," ">> \o value

\* items.map((item) => `- ${item}`).join('\n')
formatList(items) == Join([k \in DOMAIN items |-> <<"-"," ">> \o items[k]], NL)

formatLinks(items) ==
    Join([k \in DOMAIN items |-> buildMarkdownLink(items[k].label, items[k].href)], NL)

\* value.replace(/"/g, '\\"')
EscapeQuotes(value) ==
    Flatten([i \in DOMAIN value |-> IF value[i] = "\"" THEN <<"\\", "\"">> ELSE <<value[i]>>])

escapeFrontMatterValue(value) ==
    IF value = <<>> THEN <<"\"", "\"">>
    ELSE IF \E i \in DOMAIN value : value[i] \in {":", "\n"}
         THEN <<"\"">> \o EscapeQuotes(value) \o <<"\"">>
    ELSE value

\* a line `key: value` when the field is set
OptionalLine(key, value, shown) == IF value = <<>> THEN <<>> ELSE <<buildFrontMatterLine(key, shown)>>

\* a boolean field is "unset", "true" or "false"
BooleanLine(key, flag) ==
    IF flag = "unset" THEN <<>>
    ELSE <<buildFrontMatterLine(key, IF flag = "true" THEN <<"t","r","u","e">> ELSE <<"f","a","l","s","e">>)>>

buildFrontMatter(content) ==
    LET lines ==
            <<buildFrontMatterLine(<<"t","i","t","l","e">>, escapeFrontMatterValue(content.title))>>
            \o OptionalLine(<<"d","e","s","c","r","i","p","t","i","o","n">>, content.description,
                            escapeFrontMatterValue(content.description))
            \o OptionalLine(<<"s","e","o","t","i","t","l","e">>, content.seoTitle,
                            escapeFrontMatterValue(content.seoTitle))
            \o OptionalLine(<<"s","e","o","-","d","e","s","c","r","i","p","t","i","o","n">>, content.seoDescription,
                            escapeFrontMatterValue(content.seoDescription))
            \o OptionalLine(<<"g","r","o","u","p">>, content.group, content.group)
            \o BooleanLine(<<"i","n","d","e","x","a","b","l","e">>, content.indexable)
            \o BooleanLine(<<"l","l","m","s">>, content.llms)
            \o BooleanLine(<<"n","a","v">>, content.nav)
            \o OptionalLine(<<"n","a","v","-","o","r","d","e","r">>, content.navOrder, content.navOrder)
            \o OptionalLine(<<"s","c","h","e","m","a">>, content.schemaType, content.schemaType)
            \o OptionalLine(<<"o","g","-","t","y","p","e">>, content.ogType, content.ogType)
            \o OptionalLine(<<"o","g","-","i","m","a","g","e">>, content.ogImage, escapeFrontMatterValue(content.ogImage))
            \o OptionalLine(<<"e","y","e","b","r","o","w">>, content.eyebrow, escapeFrontMatterValue(content.eyebrow))
            \o OptionalLine(<<"p","u","b","l","i","s","h","e","d">>, content.publishedAt, content.publishedAt)
            \o OptionalLine(<<"u","p","d","a","t","e","d">>, content.updatedAt, content.updatedAt)
            \o (IF content.tags = <<>> THEN <<>>
                ELSE <<<<"t","a","g","s",":">>>> \o [k \in DOMAIN content.tags |->
                                        <<" "," ","-"," ">>
                                            \o escapeFrontMatterValue(content.tags[k])])
            \o OptionalLine(<<"p","a","t","h">>, content.path, escapeFrontMatterValue(content.path))
    IN  Join(<<<<"-","-","-">>>> \o lines \o <<<<"-","-","-">>, <<>> >>, NL)

buildSection(heading, markdown) ==
    IF Trim(markdown) = <<>> THEN <<>>
    ELSE <<"#","#"," ">> \o heading \o NL \o Trim(markdown) \o NL

buildFeatureList(items) ==
    IF items = <<>> THEN <<>> ELSE buildSection(<<"F","e","a","t","u","r","e"," ","l","i","s","t">>, formatList(items))

buildFaqs(faqs) ==
    IF faqs = <<>> THEN <<>>
    ELSE buildSection(<<"F","A","Q","s">>,
             Join([k \in DOMAIN faqs |->
                      <<"-"," ","*","*">> \o faqs[k].question \o <<"*","*"," ">>
                          \o faqs[k].answer], NL))

buildSteps(steps) ==
    IF steps = <<>> THEN <<>>
    ELSE buildSection(<<"H","o","w"," ","i","t"," ","w","o","r","k","s">>,
             Join([k \in DOMAIN steps |->
                      DigitsOf(k) \o <<"."," ","*","*">> \o steps[k].title
                          \o <<"*","*"," ","-"," ">> \o steps[k].description], NL))

buildPricing(pricing) ==
    buildSection(<<"P","r","i","c","i","n","g">>, Join(FilterBoolean(<<pricing.headline, pricing.detail>>), NL \o NL))

buildTrust(trust) ==
    IF trust.items = <<>> THEN <<>>
    ELSE buildSection(trust.title,
             Join([k \in DOMAIN trust.items |->
                      <<"-"," ","*","*">> \o trust.items[k].title
                          \o <<"*","*"," ","-"," ">> \o trust.items[k].description], NL))

buildSections(sections) ==
    Join([k \in DOMAIN sections |-> buildSection(sections[k].heading, sections[k].markdown)],
         NL)

buildLinkSection(heading, links) ==
    IF links = <<>> THEN <<>> ELSE buildSection(heading, formatLinks(links))

buildCta(cta) ==
    IF ~cta.set THEN <<>>
    ELSE buildSection(<<"R","e","a","d","y"," ","t","o"," ","s","e","n","d"," ","i","t","?">>,
             (IF cta.note # <<>> THEN cta.note \o NL \o NL ELSE <<>>)
                 \o <<"[">> \o cta.label \o <<"]","(">> \o cta.href \o <<")">>)

\* a block pushed when its condition holds
Block(pushed, text) == IF pushed THEN <<text>> ELSE <<>>

\* the rendered file as its lines
renderSeoMarkdown(content) ==
    LET blocks ==
            <<<<"#"," ">> \o content.title>>
            \o Block(content.description # <<>>, content.description)
            \o Block(content.steps # <<>>, buildSteps(content.steps))
            \o Block(content.featureList # <<>>, buildFeatureList(content.featureList))
            \o Block(content.pricing.set, buildPricing(content.pricing))
            \o Block(content.trust.set, buildTrust(content.trust))
            \o Block(content.sections # <<>>, buildSections(content.sections))
            \o Block(content.faqs # <<>>, buildFaqs(content.faqs))
            \o Block(content.resourceLinks # <<>>,
                     buildLinkSection(<<"R","e","s","o","u","r","c","e","s">>, content.resourceLinks))
            \o Block(content.relatedLinks # <<>>,
                     buildLinkSection(<<"R","e","l","a","t","e","d">>, content.relatedLinks))
            \o Block(content.cta.set, buildCta(content.cta))
    IN  Split(buildFrontMatter(content) \o Trim(Join(FilterBoolean(blocks), NL \o NL)) \o NL,
              "\n")

-----------------------------------------------------------------------------
(* programmatic/index.ts: the page contents built from a template and a row *)

\* core/utils/normalize.ts titleCase
TITLE_CASE_UPPER ==
    {<<"p","d","f">>,
     <<"u","s","p","s">>,
     <<"u","s","a">>,
     <<"a","i">>,
     <<"a","p","i">>,
     <<"m","c","p">>,
     <<"l","l","m">>,
     <<"l","l","m","s">>,
     <<"i","d">>}

TitleWord(lower) ==
    IF lower \in TITLE_CASE_UPPER THEN ToUpperCase(lower)
    ELSE IF lower = <<>> THEN <<>>
    ELSE <<UpperChar(lower[1])>> \o Tail(lower)

TitleWords(words) == [k \in DOMAIN words |-> TitleWord(ToLowerCase(words[k]))]

titleCase(value) ==
    Join(TitleWords(Split(Trim(CollapseWhitespace(
                                   ReplaceChar(ReplaceChar(value, "-", " "), "_", " "))),
                          " ")),
         <<" ">>)

\* an optional list: undefined, or an array that may be empty
Defined(items) == [set |-> TRUE, items |-> items]

Undefined == [set |-> FALSE, items |-> <<>>]

\* the key captured by \s*([^}]+?)\s* from the text between the braces
TemplateKey(inner) == IF Trim(inner) = <<>> THEN <<inner[Len(inner)]>> ELSE Trim(inner)

\* whether s starts with {{, a text without } of at least one character,
\* and }}, the first } being at position close
IsPlaceholder(s, close) ==
    /\ StartsWith(s, <<"{", "{">>)
    /\ close >= 4
    /\ close < Len(s)
    /\ s[close + 1] = "}"

\* value.replace(/\{\{\s*([^}]+?)\s*\}\}/g, (_match, key) => tokens[key] ?? '')
RECURSIVE renderTemplateString(_, _)
RenderFrom(s, tokens, close) ==
    IF IsPlaceholder(s, close)
    THEN Lookup(tokens, TemplateKey(SubSeq(s, 3, close - 1)))
             \o renderTemplateString(SubSeq(s, close + 2, Len(s)), tokens)
    ELSE <<s[1]>> \o renderTemplateString(Tail(s), tokens)

renderTemplateString(value, tokens) ==
    IF value = <<>> THEN <<>> ELSE RenderFrom(value, tokens, IndexOfChar(value, "}", 3))

RenderedSection(section, tokens) ==
    SeoSection(Trim(renderTemplateString(section.heading, tokens)),
               Trim(renderTemplateString(section.markdown, tokens)))

HasHeadingOrMarkdown(section) == section.heading # <<>> \/ section.markdown # <<>>

renderSections(sections, tokens) ==
    IF sections = <<>> THEN Undefined
    ELSE Defined(SelectSeq([k \in DOMAIN sections |-> RenderedSection(sections[k], tokens)],
                           HasHeadingOrMarkdown))

RenderedFaq(faq, tokens) ==
    Faq(Trim(renderTemplateString(faq.question, tokens)),
        Trim(renderTemplateString(faq.answer, tokens)))

HasQuestionAndAnswer(faq) == faq.question # <<>> /\ faq.answer # <<>>

renderFaqs(faqs, tokens) ==
    IF faqs = <<>> THEN Undefined
    ELSE Defined(SelectSeq([k \in DOMAIN faqs |-> RenderedFaq(faqs[k], tokens)],
                           HasQuestionAndAnswer))

renderList(items, tokens) ==
    IF items = <<>> THEN Undefined
    ELSE Defined(FilterBoolean([k \in DOMAIN items |->
                                   Trim(renderTemplateString(items[k], tokens))]))

\* record.list?.length ? record.list : fromTemplate
OwnOr(own, fromTemplate) == IF own # <<>> THEN Defined(own) ELSE fromTemplate

\* resolveLabel
resolveLabel(record, title, slug) ==
    OrElse(Lookup(record.fields, <<"l","a","b","e","l">>), OrElse(title, titleCase(slug)))

\* a template with its content and linking settings; an absent string is
\* <<>>, an absent list <<>>, relatedBy is "tag", "hub" or "unset", an
\* absent relatedLimit is NoLimit
NoLimit == 0 - 1

ContentTemplate(id, route, content, relatedBy, relatedLimit, records) ==
    [id |-> id, route |-> route, indexable |-> TRUE, records |-> records,
     content |-> content, relatedBy |-> relatedBy, relatedLimit |-> relatedLimit]

TemplateContent(title, description, sections, faqs, featureList) ==
    [title |-> title, heading |-> <<>>, description |-> description, seoTitle |-> <<>>,
     seoDescription |-> <<>>, sections |-> sections, faqs |-> faqs,
     featureList |-> featureList]

\* a dataset row with its list-valued fields
ContentRecord(slug, tokens, fields, tags, relatedSlugs) ==
    [slug |-> slug, tokens |-> tokens, fields |-> fields, tags |-> tags,
     relatedSlugs |-> relatedSlugs, sections |-> <<>>, faqs |-> <<>>, featureList |-> <<>>]

\* the title, heading, description, seoTitle and seoDescription of the page
PageTitle(template, record, tokens) ==
    OrElse(Lookup(record.fields, <<"t","i","t","l","e">>),
           Trim(renderTemplateString(template.content.title, tokens)))

PageHeading(template, record, tokens) ==
    OrElse(Lookup(record.fields, <<"h","e","a","d","i","n","g">>),
           Trim(renderTemplateString(OrElse(template.content.heading, template.content.title),
                                     tokens)))

\* record[key] ? record[key].trim() : renderTemplateString(fromTemplate, tokens).trim()
TrimmedOr(record, key, fromTemplate, tokens) ==
    IF Lookup(record.fields, key) # <<>> THEN Trim(Lookup(record.fields, key))
    ELSE Trim(renderTemplateString(fromTemplate, tokens))

\* the content of the page; `faqs || undefined` and `featureList ||
\* undefined` keep an empty array
PageContentOf(template, record, tokens, routePath, title) ==
    [path |-> routePath,
     title |-> title,
     heading |-> OrElse(PageHeading(template, record, tokens), title),
     description |-> TrimmedOr(record, <<"d","e","s","c","r","i","p","t","i","o","n">>,
                               template.content.description, tokens),
     seoTitle |-> TrimmedOr(record, <<"s","e","o","T","i","t","l","e">>,
                            template.content.seoTitle, tokens),
     seoDescription |-> TrimmedOr(record, <<"s","e","o","D","e","s","c","r","i","p","t","i","o","n">>,
                                  template.content.seoDescription, tokens),
     sections |-> OwnOr(record.sections, renderSections(template.content.sections, tokens)),
     faqs |-> OwnOr(record.faqs, renderFaqs(template.content.faqs, tokens)),
     featureList |-> OwnOr(record.featureList,
                           renderList(template.content.featureList, tokens)),
     relatedLinks |-> <<>>]

PageRecordOf(template, record, tokens, routePath, title) ==
    [path |-> routePath,
     indexable |-> template.indexable,
     templateId |-> template.id,
     slug |-> record.slug,
     label |-> resolveLabel(record, title, record.slug),
     tags |-> record.tags,
     relatedSlugs |-> record.relatedSlugs,
     content |-> PageContentOf(template, record, tokens, routePath, title)]

\* the page of the first loop of buildProgrammaticIndex, with its content
ProgrammaticPageRecord(template, record, routePath) ==
    PageRecordOf(template, record, buildTokenMap(record), routePath,
                 PageTitle(template, record, buildTokenMap(record)))

-----------------------------------------------------------------------------
(* programmatic/index.ts: the two loops of buildProgrammaticIndex, with the
   page contents and the related links *)

RowResolves(row) == resolveRoute(row.template.route, buildTokenMap(row.record)) # <<>>

RowPage(row) ==
    ProgrammaticPageRecord(row.template, row.record,
                           resolveRoute(row.template.route, buildTokenMap(row.record)))

RowPages(rows) == [k \in DOMAIN rows |-> RowPage(rows[k])]

\* the pages pushed by the first loop when no path comes twice
PageRecords(tpls) == RowPages(SelectSeq(TemplateRows(tpls), RowResolves))

\* pagesByTemplate.get(template.id); the templates have distinct ids
templatePages(pages, template) ==
    LET ofTemplate(page) == page.templateId = template.id
    IN  SelectSeq(pages, ofTemplate)

TemplateOf(tpls, id) == tpls[CHOOSE k \in DOMAIN tpls : tpls[k].id = id]

\* the first entry of a list among the positions given, if any
FirstAt(list, positions) == IF positions = {} THEN <<>> ELSE <<list[SetMin(positions)]>>

\* a variant that looks every entry up by slug among the template's pages
ResolveRelatedBySlug(entry, pages, ownPages) ==
    FirstAt(ownPages, {k \in DOMAIN ownPages : ownPages[k].slug = entry})

\* pathKey ? pageMap.get(pathKey) : templatePages.find((c) => c.slug === slug)
ResolveRelated(entry, pages, ownPages) ==
    IF StartsWith(entry, <<"/">>)
    THEN FirstAt(pages, {k \in DOMAIN pages : pages[k].path = normalizePath(entry)})
    ELSE FirstAt(ownPages, {k \in DOMAIN ownPages : ownPages[k].slug = entry})

LinksTo(found) == [k \in DOMAIN found |-> SeoLink(found[k].label, found[k].path)]

\* the `for (const slug of page.relatedSlugs)` loop
RECURSIVE ExplicitLinks(_, _, _)
ExplicitLinks(entries, pages, ownPages) ==
    IF entries = <<>> THEN <<>>
    ELSE LinksTo(ResolveRelated(Head(entries), pages, ownPages))
             \o ExplicitLinks(Tail(entries), pages, ownPages)

\* tagIndex.get(tag): the template's pages that carry the tag, once per
\* occurrence of the tag in their list
RECURSIVE TaggedPages(_, _)
TaggedPages(ownPages, tag) ==
    IF ownPages = <<>> THEN <<>>
    ELSE LET isTag(t) == t = tag
         IN  [k \in DOMAIN SelectSeq(Head(ownPages).tags, isTag) |-> Head(ownPages)]
                 \o TaggedPages(Tail(ownPages), tag)

\* the candidates visited by the two nested loops over page.tags and
\* tagIndex.get(tag), the page itself left out
RECURSIVE Candidates(_, _, _)
Candidates(tags, page, ownPages) ==
    IF tags = <<>> THEN <<>>
    ELSE LET other(candidate) == candidate.path # page.path
         IN  SelectSeq(TaggedPages(ownPages, Head(tags)), other)
                 \o Candidates(Tail(tags), page, ownPages)

\* scores.set(path, (scores.get(path) || 0) + 1)
Bump(scores, pathKey) ==
    IF HasKey(scores, pathKey)
    THEN [k \in DOMAIN scores |->
             IF scores[k].key = pathKey THEN Entry(pathKey, scores[k].value + 1)
             ELSE scores[k]]
    ELSE Append(scores, Entry(pathKey, 1))

RECURSIVE Scores(_, _)
Scores(candidates, scores) ==
    IF candidates = <<>> THEN scores
    ELSE Scores(Tail(candidates), Bump(scores, Head(candidates).path))

InsertAt(sorted, entry, n) ==
    SubSeq(sorted, 1, n) \o <<entry>> \o SubSeq(sorted, n + 1, Len(sorted))

\* a variant that puts an entry before the entries of the same score
InsertBeforeTies(sorted, entry) ==
    InsertAt(sorted, entry,
             Cardinality({k \in DOMAIN sorted : sorted[k].value > entry.value}))

\* the entry goes after every entry whose score is not lower
InsertByScore(sorted, entry) ==
    InsertAt(sorted, entry,
             Cardinality({k \in DOMAIN sorted : sorted[k].value >= entry.value}))

\* [...scores.entries()].sort((a, b) => b[1] - a[1]), a stable sort
RECURSIVE SortByScore(_, _)
SortByScore(entries, sorted) ==
    IF entries = <<>> THEN sorted
    ELSE SortByScore(Tail(entries), InsertByScore(sorted, Head(entries)))

\* .map(([pathKey]) => pageMap.get(pathKey)).filter(Boolean)
RECURSIVE PagesAt(_, _)
PagesAt(entries, pages) ==
    IF entries = <<>> THEN <<>>
    ELSE FirstAt(pages, {k \in DOMAIN pages : pages[k].path = Head(entries).key})
             \o PagesAt(Tail(entries), pages)

\* template.linking?.relatedLimit ?? 6
DefaultRelatedLimit == 6

relatedLimitOf(template) ==
    IF template.relatedLimit = NoLimit THEN DefaultRelatedLimit ELSE template.relatedLimit

\* list.slice(0, n) for n >= 0
SliceTo(list, n) == SubSeq(list, 1, MinOf(n, Len(list)))

TagLinks(page, template, pages, ownPages) ==
    LinksTo(SliceTo(PagesAt(SortByScore(Scores(Candidates(page.tags, page, ownPages), <<>>),
                                        <<>>),
                            pages),
                    relatedLimitOf(template)))

\* the relatedLinks the second loop collects for a page
relatedLinksOf(page, template, pages, ownPages) ==
    IF page.relatedSlugs # <<>> THEN ExplicitLinks(page.relatedSlugs, pages, ownPages)
    ELSE IF template.relatedBy = "tag" /\ page.tags # <<>>
    THEN TagLinks(page, template, pages, ownPages)
    ELSE <<>>

LinkedPage(page, template, pages) ==
    [page EXCEPT !.content.relatedLinks =
                     relatedLinksOf(page, template, pages, templatePages(pages, template))]

\* the second `for (const template of templates)` loop
LinkPages(tpls, pages) ==
    [k \in DOMAIN pages |-> LinkedPage(pages[k], TemplateOf(tpls, pages[k].templateId), pages)]

\* buildProgrammaticPagesFromTemplates: buildProgrammaticIndex(config).pages
buildProgrammaticPagesFromTemplates(tpls) ==
    IF buildProgrammaticIndex(tpls).threw THEN Thrown(buildProgrammaticIndex(tpls).error)
    ELSE Returned(LinkPages(tpls, PageRecords(tpls)))

-----------------------------------------------------------------------------
(* programmatic/index.ts: validateProgrammaticPages *)

Issue(kind, pathValue, existing) == [kind |-> kind, path |-> pathValue, existing |-> existing]

\* (page.content.seoTitle || page.content.title || '').trim().toLowerCase()
TitleKey(page) == ToLowerCase(Trim(OrElse(page.content.seoTitle, page.content.title)))

DescriptionKey(page) ==
    ToLowerCase(Trim(OrElse(page.content.seoDescription, page.content.description)))

\* existing && existing !== page.path
IsDuplicate(index, key, pathValue) == HasKey(index, key) /\ Lookup(index, key) # pathValue

Remember(index, key, pathValue) ==
    IF key = <<>> \/ IsDuplicate(index, key, pathValue) THEN index
    ELSE SetKey(index, key, pathValue)

When(condition, issue) == IF condition THEN <<issue>> ELSE <<>>

ShortDescriptionLength == 80

\* !sections?.length && !featureList?.length && !faqs: an empty faqs array
\* is truthy
IsThin(content) ==
    /\ content.sections.items = <<>>
    /\ content.featureList.items = <<>>
    /\ ~content.faqs.set

\* the issues pushed for one page, in order
PageIssues(page, titleIndex, descIndex) ==
    When(TitleKey(page) # <<>> /\ IsDuplicate(titleIndex, TitleKey(page), page.path),
         Issue("duplicate-title", page.path, Lookup(titleIndex, TitleKey(page))))
    \o When(DescriptionKey(page) # <<>>
                /\ IsDuplicate(descIndex, DescriptionKey(page), page.path),
            Issue("duplicate-description", page.path, Lookup(descIndex, DescriptionKey(page))))
    \o When(DescriptionKey(page) # <<>> /\ Len(DescriptionKey(page)) < ShortDescriptionLength,
            Issue("short-description", page.path, <<>>))
    \o When(DescriptionKey(page) = <<>>, Issue("missing-description", page.path, <<>>))
    \o When(Trim(page.content.title) = <<>>, Issue("missing-title", page.path, <<>>))
    \o When(Trim(page.content.heading) = <<>>, Issue("missing-heading", page.path, <<>>))
    \o When(IsThin(page.content), Issue("thin-content", page.path, <<>>))

\* the `for (const page of pages)` loop
RECURSIVE ValidateLoop(_, _, _)
ValidateLoop(pages, titleIndex, descIndex) ==
    IF pages = <<>> THEN <<>>
    ELSE PageIssues(Head(pages), titleIndex, descIndex)
             \o ValidateLoop(Tail(pages),
                             Remember(titleIndex, TitleKey(Head(pages)), Head(pages).path),
                             Remember(descIndex, DescriptionKey(Head(pages)), Head(pages).path))

validateProgrammaticPages(pages) == ValidateLoop(pages, <<>>, <<>>)

-----------------------------------------------------------------------------
(* core/generation/generate.ts: the public markdown copies *)

\* `if (!entry.indexable || entry.llms === false) return` lets the entry pass
IsListed(entry) == entry.indexable = "true" /\ entry.llms # "false"

\* a marketing entry: the page fields and the markdown body read with them
MarketingEntry(page, markdown) == [page |-> page, markdown |-> markdown]

\* mapMarketingContentToSeo copies the page fields and leaves the body out
mapMarketingContentToSeo(entry) == entry.page

\* a value of the markdownTargets map; allowEmpty is "false" or "unset"
MarkdownTarget(content, allowEmpty) == [content |-> content, allowEmpty |-> allowEmpty]

\* markdownTargets.has(path); the map is the list of its values in insertion
\* order, each keyed by its content's path
HasTarget(targets, pathValue) ==
    \E k \in DOMAIN targets : targets[k].content.path = pathValue

\* markdownTargets.set(path, target): a present key keeps its position
SetTarget(targets, target) ==
    IF HasTarget(targets, target.content.path)
    THEN [k \in DOMAIN targets |->
             IF targets[k].content.path = target.content.path THEN target ELSE targets[k]]
    ELSE Append(targets, target)

\* the body of marketingContentWithDates.forEach
MarketingTarget(targets, entry) ==
    IF ~IsListed(entry.page) THEN targets
    ELSE IF Trim(entry.markdown) = <<>> THEN targets
    ELSE SetTarget(targets, MarkdownTarget(mapMarketingContentToSeo(entry), "false"))

\* a variant of the later loops' body without the markdownTargets.has guard
ClaimTargetReplacing(targets, entry) ==
    IF ~IsListed(entry) THEN targets
    ELSE SetTarget(targets, MarkdownTarget(entry, "unset"))

\* the body of staticContent.forEach and of seoContentIndex.forEach
ClaimTarget(targets, entry) ==
    IF ~IsListed(entry) THEN targets
    ELSE IF HasTarget(targets, entry.path) THEN targets
    ELSE SetTarget(targets, MarkdownTarget(entry, "unset"))

RECURSIVE ForEachMarketing(_, _)
ForEachMarketing(entries, targets) ==
    IF entries = <<>> THEN targets
    ELSE ForEachMarketing(Tail(entries), MarketingTarget(targets, Head(entries)))

RECURSIVE ForEachContent(_, _)
ForEachContent(entries, targets) ==
    IF entries = <<>> THEN targets
    ELSE ForEachContent(Tail(entries), ClaimTarget(targets, Head(entries)))

\* the markdownTargets map once the three loops have run
markdownTargets(marketingContentWithDates, staticContent, seoContentIndex, fromProgrammatic) ==
    ForEachContent(IF fromProgrammatic THEN seoContentIndex ELSE <<>>,
                   ForEachContent(staticContent,
                                  ForEachMarketing(marketingContentWithDates, <<>>)))

\* let count = 0; for (const value of results) count += value
RECURSIVE SumOf(_)
SumOf(values) == IF values = <<>> THEN 0 ELSE Head(values) + SumOf(Tail(values))

-----------------------------------------------------------------------------
(* The inputs the model draws from *)

\* files of content/marketing: two that slugify alike, the directory index,
\* a nested index and its sibling, and an entry the scan skips
MarketingUniverse ==
    {File(<<"a","_","b",".","m","d">>, <<>>, TRUE),
     File(<<"a","-","b",".","m","d">>, <<>>, TRUE),
     File(<<"i","n","d","e","x",".","m","d">>, <<>>, TRUE),
     File(<<"B","l","o","g","/","i","n","d","e","x",".","m","d">>, <<>>, TRUE),
     File(<<"b","l","o","g",".","m","d">>, <<>>, TRUE),
     File(<<"_","d","r","a","f","t",".","m","d">>, <<>>, TRUE)}

\* the listings of at most n distinct files of a universe, in any order
RECURSIVE Listings(_, _)
Listings(universe, n) ==
    IF n = 0 THEN {<<>>}
    ELSE LET shorter == Listings(universe, n - 1)
         IN  shorter \cup {Append(l, f) : l \in shorter, f \in universe} 

DistinctListings(universe, n) ==
    {l \in Listings(universe, n) : \A i, j \in DOMAIN l : l[i].name = l[j].name => i = j}

\* the entries of a list at the picked positions, in the list's order
RECURSIVE SubListOf(_, _)
SubListOf(entries, picked) ==
    IF entries = <<>> THEN <<>>
    ELSE SubListOf(SubSeq(entries, 1, Len(entries) - 1), picked)
             \o (IF Len(entries) \in picked THEN <<entries[Len(entries)]>> ELSE <<>>)

SubLists(entries, n) ==
    {SubListOf(entries, picked) : picked \in {p \in SUBSET DOMAIN entries : Cardinality(p) <= n}}

Reversed(list) == [k \in DOMAIN list |-> list[Len(list) + 1 - k]]

Slug_a == <<"a">>

Slug_b == <<"b">>

GuideRoute == <<"/","g","u","i","d","e","s","/","{","s","l","u","g","}">>

TopicRoute == <<"/","g","u","i","d","e","s","/",":","s","l","u","g">>

AboutRoute == <<"/","a","b","o","u","t">>

DocsRoute == <<"/","{","s","e","c","t","i","o","n","}","/","{","s","l","u","g","}">>

SectionKey == <<"s","e","c","t","i","o","n">>

\* the template directories the model draws from: none, one template with
\* one or two rows, two templates resolving to the same route, a constant
\* route shared by two rows, a two-token route, a row without its token
TemplateChoices ==
    {<<>>,
     <<Template("guide", GuideRoute, TRUE, <<Record(Slug_a, <<>>, <<>>)>>)>>,
     <<Template("guide", GuideRoute, TRUE,
                <<Record(Slug_a, <<>>, <<>>), Record(Slug_b, <<>>, <<>>)>>)>>,
     <<Template("guide", GuideRoute, TRUE, <<Record(Slug_a, <<>>, <<>>)>>),
       Template("topic", TopicRoute, FALSE, <<Record(Slug_a, <<>>, <<>>)>>)>>,
     <<Template("about", AboutRoute, TRUE,
                <<Record(Slug_a, <<>>, <<>>), Record(Slug_b, <<>>, <<>>)>>)>>,
     <<Template("guide", GuideRoute, TRUE, <<Record(Slug_b, <<>>, <<>>)>>),
       Template("docs", DocsRoute, TRUE,
                <<Record(Slug_a, <<>>, <<Entry(SectionKey, <<"g","u","i","d","e","s">>)>>),
                  Record(Slug_b, <<Entry(SectionKey, <<"d","o","c","s">>)>>, <<>>),
                  Record(Slug_a, <<>>, <<>>)>>)>>}

\* ---- route patterns and rows for resolveRoute

\* a two-token route with a fixed first segment, a route with a brace that
\* holds no token name, an absolute URL, a relative route with a trailing
\* slash, a two-token route in colon form, two tokens side by side
NestedRoute == <<"/","d","o","c","s","/","{","s","e","c","t","i","o","n","}","/","{","s","l","u","g","}">>

LooseBraceRoute == <<"/","{","a"," ","b","}","/","{","s","l","u","g","}">>

UrlRoute == <<"h","t","t","p","s",":","/","/","x",".","d","e","v","/","{","s","l","u","g","}">>

RelativeRoute == <<"g","u","i","d","e","s","/","{","s","l","u","g","}","/">>

ColonDocsRoute == <<"/",":","s","e","c","t","i","o","n","/",":","s","l","u","g">>

AdjacentRoute == <<"/","{","s","e","c","t","i","o","n","}","{","s","l","u","g","}">>

RoutePatterns ==
    {GuideRoute, TopicRoute, AboutRoute, DocsRoute, NestedRoute, LooseBraceRoute,
     UrlRoute, RelativeRoute, ColonDocsRoute, AdjacentRoute}

\* rows: without a section, with one as a top-level field or in the tokens
\* bag, with an empty one, with one that holds a colon and a name, and with
\* one that holds a brace pair
RouteRecords ==
    {Record(Slug_a, <<>>, <<>>),
     Record(Slug_a, <<>>, <<Entry(SectionKey, <<"d","o","c","s">>)>>),
     Record(Slug_b, <<Entry(SectionKey, <<"d","o","c","s">>)>>, <<>>),
     Record(Slug_b, <<>>, <<Entry(SectionKey, <<>>)>>),
     Record(Slug_a, <<>>, <<Entry(SectionKey, <<"x",":","y">>)>>),
     Record(Slug_a, <<>>, <<Entry(SectionKey, <<"{","i","d","}">>)>>)}

RouteTemplates ==
    {<<Template("t", route, TRUE, <<record>>)>> : route \in RoutePatterns, record \in RouteRecords}

\* ---- templates with content and linking, and their rows

MaxRows == 3

GuideContent ==
    TemplateContent(<<"G","u","i","d","e"," ","t","o"," ","{","{","t","o","p","i","c","}","}">>, <<"A","b","o","u","t"," ","{","{"," ","t","o","p","i","c"," ","}","}">>, <<>>,
                    <<Faq(<<"{","{","q","}","}">>, <<"{","{","a","}","}">>)>>, <<>>)

ToolContent ==
    TemplateContent(<<"{","{","l","a","b","e","l","}","}","{","{","s","l","u","g","}","}"," ","t","o","o","l">>, <<>>, <<>>, <<>>, <<>>)

\* rows of the guide template: the row of the worked example, with a FAQ;
\* a row with a title of its own and a tokens bag that holds a slug; a row
\* whose topic is both in the bag and at the top level; a row with explicit
\* related entries (a slug, a path of another template with a trailing
\* slash, an unknown slug, a path of its own template); a row whose only
\* related entry resolves to nothing; a row without tags
GuideRecords ==
    <<ContentRecord(<<"t","e","s","t","i","n","g">>, <<>>, <<Entry(<<"t","o","p","i","c">>, <<"T","e","s","t","i","n","g">>), Entry(<<"q">>, <<"W","h","y","?">>), Entry(<<"a">>, <<"B","e","c","a","u","s","e",".">>)>>,
                   <<<<"q","a">>, <<"c","i">>>>, <<>>),
     ContentRecord(<<"l","i","n","t","i","n","g">>, <<Entry(<<"t","o","p","i","c">>, <<"L","i","n","t","i","n","g">>), Entry(<<"s","l","u","g">>, <<"o","t","h","e","r">>)>>, <<Entry(<<"t","i","t","l","e">>, <<"L","i","n","t"," ","i","t">>)>>,
                   <<<<"c","i">>>>, <<>>),
     ContentRecord(<<"t","y","p","i","n","g">>, <<Entry(<<"t","o","p","i","c">>, <<"O","l","d">>)>>, <<Entry(<<"t","o","p","i","c">>, <<"T","y","p","i","n","g">>)>>,
                   <<<<"c","i">>, <<"q","a">>, <<"x">>>>, <<>>),
     ContentRecord(<<"d","e","p","l","o","y">>, <<>>, <<Entry(<<"t","o","p","i","c">>, <<"D","e","p","l","o","y","s">>)>>,
                   <<<<"q","a">>>>,
                   <<<<"t","e","s","t","i","n","g">>, <<"/","t","o","o","l","s","/","f","m","t","/">>, <<"m","i","s","s","i","n","g">>, <<"/","g","u","i","d","e","s","/","l","i","n","t","i","n","g">>>>),
     ContentRecord(<<"n","o","t","e","s">>, <<>>, <<Entry(<<"t","o","p","i","c">>, <<"N","o","t","e","s">>)>>,
                   <<<<"c","i">>>>, <<<<"n","o","p","e">>>>),
     ContentRecord(<<"p","l","a","i","n">>, <<>>, <<Entry(<<"t","o","p","i","c">>, <<"P","l","a","i","n">>)>>, <<>>, <<>>)>>

\* at most MaxRows of the rows, in the order above or in the opposite order
GuideRows ==
    SubLists(GuideRecords, MaxRows)
        \cup {Reversed(rows) : rows \in SubLists(GuideRecords, MaxRows)}

\* rows of the tool template: one with a label at the top level, one with a
\* label in its tokens bag, the slug of a guide and a related guide path
ToolRows ==
    {<<>>,
     <<ContentRecord(<<"f","m","t">>, <<>>, <<Entry(<<"l","a","b","e","l">>, <<"F","o","r","m","a","t","t","e","r">>)>>, <<<<"c","i">>>>, <<>>)>>,
     <<ContentRecord(<<"f","m","t">>, <<>>, <<Entry(<<"l","a","b","e","l">>, <<"F","o","r","m","a","t","t","e","r">>)>>, <<<<"c","i">>>>, <<>>),
       ContentRecord(<<"t","e","s","t","i","n","g">>, <<Entry(<<"l","a","b","e","l">>, <<"B","a","g">>)>>, <<>>, <<<<"c","i">>>>,
                     <<<<"/","g","u","i","d","e","s","/","t","e","s","t","i","n","g">>, <<"t","e","s","t","i","n","g">>, <<"f","m","t">>>>)>>}

GuideTemplate(relatedLimit, rows) ==
    ContentTemplate("guide", GuideRoute, GuideContent, "tag", relatedLimit, rows)

ToolTemplate(rows) ==
    ContentTemplate("tool", <<"/","t","o","o","l","s","/","{","s","l","u","g","}">>, ToolContent, "unset", NoLimit, rows)

\* the guide template alone, or with the tool template before or after it
ContentTemplates ==
    {<<GuideTemplate(relatedLimit, rows)>> : relatedLimit \in {NoLimit, 1}, rows \in GuideRows}
    \cup {<<GuideTemplate(relatedLimit, rows), ToolTemplate(tools)>> :
             relatedLimit \in {NoLimit, 1}, rows \in GuideRows, tools \in ToolRows \ {<<>>}}
    \cup {<<ToolTemplate(tools), GuideTemplate(relatedLimit, rows)>> :
             relatedLimit \in {NoLimit, 1}, rows \in GuideRows, tools \in ToolRows \ {<<>>}}

\* the templates a directory listing is drawn from
TemplateUniverse ==
    {Template("guide", GuideRoute, TRUE, <<Record(Slug_a, <<>>, <<>>)>>),
     Template("topic", TopicRoute, FALSE, <<Record(Slug_a, <<>>, <<>>)>>),
     Template("about", AboutRoute, TRUE,
              <<Record(Slug_a, <<>>, <<>>), Record(Slug_b, <<>>, <<>>)>>),
     Template("docs", DocsRoute, TRUE,
              <<Record(Slug_a, <<>>, <<Entry(SectionKey, <<"g","u","i","d","e","s">>)>>),
                Record(Slug_b, <<Entry(SectionKey, <<"d","o","c","s">>)>>, <<>>)>>),
     Template("howto", GuideRoute, TRUE, <<Record(Slug_b, <<>>, <<>>)>>)}

TemplateListings(n) ==
    {l \in Listings(TemplateUniverse, n) : \A i, j \in DOMAIN l : l[i].id = l[j].id => i = j}

\* config.routes.staticRoutes of the invocations
StaticRoutes == <<Route(<<"/">>, TRUE), Route(<<"/","a","-","b">>, FALSE)>>

\* config.generation of an invocation
GenConfigs ==
    {[generateProgrammaticMarkdown |-> g, publicMarkdownFromProgrammatic |-> p,
      generatePublicMarkdown |-> TRUE]
        : g \in BOOLEAN, p \in {FALSE}}

\* files of content/pages: two that slugify alike, the directory index, a
\* nested page, a file whose `path` metadata names another file's route, a
\* file under the marketing prefix and an entry the scan skips
PagesUniverse ==
    {File(<<"a","_","b",".","m","d">>, <<>>, TRUE),
     File(<<"a","-","b",".","m","d">>, <<>>, TRUE),
     File(<<"i","n","d","e","x",".","m","d">>, <<>>, TRUE),
     File(<<"a","b","o","u","t",".","m","d">>, <<>>, TRUE),
     File(<<"t","e","a","m",".","m","d">>, <<" ","/","a","b","o","u","t"," ">>, FALSE),
     File(<<"d","o","c","s","/","I","n","t","r","o",".","m","d">>, <<>>, TRUE),
     File(<<"m","a","r","k","e","t","i","n","g","/","x",".","m","d">>, <<>>, TRUE),
     File(<<"_","d","r","a","f","t",".","m","d">>, <<>>, TRUE)}

\* content/marketing with a file whose [meta] block names a path
MarketingPathUniverse ==
    MarketingUniverse \cup {File(<<"p","l","a","n","s",".","m","d">>, <<"/","p","r","i","c","i","n","g","-","p","l","a","n","s">>, TRUE)}

\* content/pages with a file whose front matter names a relative path with
\* a trailing slash
PagesPathUniverse ==
    PagesUniverse \cup {File(<<"f","a","q",".","m","d">>, <<"h","e","l","p","/","f","a","q","/">>, TRUE)}

\* the states of a JSON cache file
CachedRecord == [path |-> <<"/","c","a","c","h","e","d">>, indexable |-> TRUE]

CacheFileStates ==
    {CacheFile("missing", <<>>), CacheFile("unreadable", <<>>),
     CacheFile("invalidJson", <<>>), CacheFile("notArray", <<>>),
     CacheFile("array", <<>>), CacheFile("array", <<CachedRecord>>)}

\* the content directories an accessor call finds: empty ones, one page
\* each, and two marketing files deriving one route
ContentChoices ==
    {[pages |-> <<>>, marketing |-> <<>>],
     [pages |-> <<File(<<"i","n","d","e","x",".","m","d">>, <<>>, TRUE)>>,
      marketing |-> <<File(<<"i","n","d","e","x",".","m","d">>, <<>>, TRUE)>>],
     [pages |-> <<File(<<"i","n","d","e","x",".","m","d">>, <<>>, TRUE),
                  File(<<"a","b","o","u","t",".","m","d">>, <<>>, TRUE)>>,
      marketing |-> <<File(<<"a","_","b",".","m","d">>, <<>>, TRUE),
                      File(<<"a","-","b",".","m","d">>, <<>>, TRUE)>>]}

Accessors == {"getSeoContentIndex", "getMarketingRoutes", "getMarketingContentIndex"}

SourceOptions == {"default", "auto", "filesystem", "file"}

Methods == {<<"G","E","T">>, <<"h","e","a","d">>, <<"P","O","S","T">>}

Urls ==
    {<<"/","p","r","i","c","i","n","g",".","m","d">>,
     <<"/","p","r","i","c","i","n","g">>,
     <<"/","i","n","d","e","x",".","m","d">>,
     <<"p","r","i","c","i","n","g",".","m","d","?","x","=","1">>}

AcceptEntries ==
    {<<"t","e","x","t","/","h","t","m","l">>,
     TextMarkdown,
     <<" ">> \o TextMarkdown \o <<";","q","=","0",".","9">>,
     TextMarkdown \o <<"x">>}

\* the Accept headers of at most n entries; <<>> is an absent header
AcceptHeaders(n) ==
    {<<>>} \cup {Join(l, <<",">>) : l \in Listings(AcceptEntries, n) \ {<<>>}}

Formats == {<<>>, FormatMd}

Pricing == <<"/","p","r","i","c","i","n","g">>

PathSets == {{}, {Pricing, <<"/">>}, {Pricing, SlashIndex}}

\* route paths in normal form, the site root and '/index' among them
NormalPaths == {<<"/">>, SlashIndex, Pricing, <<"/","d","o","c","s","/","a">>}

\* the markdown alternates of these routes
AlternateUrls == {buildMarkdownPath(p) : p \in NormalPaths}

\* what the callbacks accept
CallbackPathSets == {{}, {Pricing, <<"/">>}, NormalPaths}

\* ---- the marketing routes and their dates

PricingFile == <<"p","r","i","c","i","n","g",".","m","d">>

AboutFile == <<"a","b","o","u","t",".","m","d">>

AboutPath == <<"/","a","b","o","u","t">>

\* the pricing page with or without each metadata date, alone or before an
\* about page that declares both
DatedFileLists ==
    {<<DatedFile(Pricing, PricingFile, published, updated)>> \o others :
        published \in {NoDate, DateOf(<<"2","0","2","4","-","0","1","-","0","1">>)},
        updated \in {NoDate, DateOf(<<"2","0","2","4","-","0","2","-","0","2">>)},
        others \in {<<>>, <<DatedFile(AboutPath, AboutFile, DateOf(<<"2","0","2","4","-","0","3","-","0","3">>), DateOf(<<"2","0","2","4","-","0","4","-","0","4">>))>>}}

\* git: no repository or no output; a log that names the about page only;
\* a log that names the pricing page
GitDateChoices ==
    {Null,
     Parsed(<<[file |-> AboutFile, publishedAt |-> DateOf(<<"2","0","2","3","-","0","5","-","0","5">>), updatedAt |-> DateOf(<<"2","0","2","3","-","0","6","-","0","6">>)]>>),
     Parsed(<<[file |-> PricingFile, publishedAt |-> DateOf(<<"2","0","2","3","-","0","7","-","0","7">>), updatedAt |-> DateOf(<<"2","0","2","3","-","0","8","-","0","8">>)]>>)}

\* marketing_routes.json before the first run: missing, not JSON, written
\* with dates, written without dates
RouteCacheChoices ==
    {CacheFile("missing", <<>>),
     CacheFile("invalidJson", <<>>),
     CacheFile("array", <<DatedRoute(Pricing, DateOf(<<"2","0","2","2","-","0","9","-","0","9">>), DateOf(<<"2","0","2","2","-","1","0","-","1","0">>))>>),
     CacheFile("array", <<DatedRoute(Pricing, NoDate, NoDate)>>)}

\* config.markdown: the extension is the default '.md'
MarkdownConfigs ==
    {[enableAcceptNegotiation |-> a, enableQueryParam |-> q, extension |-> <<".","m","d">>]
        : a \in BOOLEAN, q \in BOOLEAN}

\* files of content/seo/generated: a page file, a page file whose `path`
\* metadata names its route, a file that is no markdown file, an entry the
\* reader skips, and a page file whose `path` metadata is a relative path
\* with a trailing slash
GeneratedUniverse ==
    {File(<<"g","u","i","d","e","s","/","a",".","m","d">>, <<>>, TRUE),
     File(<<"x",".","m","d">>, <<"/","g","u","i","d","e","s","/","b">>, FALSE),
     File(<<"n","o","t","e","s",".","t","x","t">>, <<>>, TRUE),
     File(<<"_","d","r","a","f","t",".","m","d">>, <<>>, TRUE),
     File(<<"y",".","m","d">>, <<"g","u","i","d","e","s","/","c","/">>, TRUE)}

\* ---- page contents and markdown files

SeoPageContent(title, description, steps, faqs, cta, sections) ==
    [set |-> TRUE, title |-> title, description |-> description,
     seoTitle |-> <<>>, seoDescription |-> <<>>, group |-> <<>>,
     indexable |-> "true", llms |-> "unset", nav |-> "unset", navOrder |-> <<>>,
     schemaType |-> <<"a","r","t","i","c","l","e">>, ogType |-> <<>>, ogImage |-> <<>>, eyebrow |-> <<>>,
     publishedAt |-> <<"2","0","2","4","-","0","1","-","0","2">>, updatedAt |-> <<>>,
     tags |-> <<<<"p","d","f">>, <<"m","a","i","l">>>>, path |-> <<"/","s","e","n","d">>,
     steps |-> steps, featureList |-> <<<<"F","a","s","t">>>>, pricing |-> NoPricing, trust |-> NoTrust,
     sections |-> sections, faqs |-> faqs, resourceLinks |-> <<>>,
     relatedLinks |-> <<SeoLink(<<"D","o","c","s">>, <<"/","d","o","c","s">>)>>, cta |-> cta]

NoPage == [SeoPageContent(<<>>, <<>>, <<>>, <<>>, NoCta, <<>>) EXCEPT !.set = FALSE]

PageTitles == {<<"S","e","n","d"," ","a"," ","P","D","F">>, <<"G","u","i","d","e",":"," ","s","e","n","d"," ","a"," ","P","D","F">>}

PageDescriptions == {<<>>, <<"F","a","s","t"," ","a","n","d"," ","s","a","f","e">>}

PageSteps ==
    {<<>>,
     <<TitleDescription(<<"U","p","l","o","a","d">>, <<"P","i","c","k"," ","a"," ","f","i","l","e">>),
       TitleDescription(<<"S","e","n","d">>, <<"W","e"," ","m","a","i","l"," ","i","t">>)>>}

PageFaqs == {<<>>, <<Faq(<<"I","s"," ","i","t"," ","s","a","f","e","?">>, <<"Y","e","s",".">>)>>}

PageCtas ==
    {NoCta, SeoCta(<<"S","t","a","r","t">>, <<"/","s","t","a","r","t">>, <<>>), SeoCta(<<"S","t","a","r","t">>, <<"/","s","t","a","r","t">>, <<"N","o"," ","a","c","c","o","u","n","t"," ","n","e","e","d","e","d",".">>)}

PageSections ==
    {<<>>,
     <<SeoSection(<<"O","v","e","r","v","i","e","w">>, <<"O","n","e"," ","p","a","r","a","g","r","a","p","h",".">>)>>,
     <<SeoSection(<<"O","v","e","r","v","i","e","w">>, <<"O","n","e"," ","p","a","r","a","g","r","a","p","h",".">>),
       SeoSection(<<"L","i","m","i","t","s">>, <<"-"," ","1","0"," ","M","B">> \o NL \o <<"-"," ","5"," ","f","i","l","e","s">>)>>}

SeoPageContents ==
    {SeoPageContent(title, description, steps, faqs, cta, sections) :
        title \in PageTitles, description \in PageDescriptions, steps \in PageSteps,
        faqs \in PageFaqs, cta \in PageCtas, sections \in PageSections}

\* a content file: its metadata in front matter ("front"), in a [meta]
\* block ("meta") or absent ("none"), then a body with or without a
\* depth-1 heading
MetaLines(title, heading) ==
    (IF title = <<>> THEN <<>> ELSE <<buildFrontMatterLine(<<"t","i","t","l","e">>, title)>>)
    \o (IF heading = <<>> THEN <<>> ELSE <<buildFrontMatterLine(<<"h","e","a","d","i","n","g">>, heading)>>)
    \o <<<<"d","e","s","c","r","i","p","t","i","o","n",":"," ","F","r","o","m"," ","t","h","e"," ","m","e","t","a","d","a","t","a">>>>

BodyLines(h1) ==
    (IF h1 = <<>> THEN <<>> ELSE <<<<"#"," ">> \o h1, <<>> >>)
    \o <<<<"O","p","e","n","i","n","g"," ","p","a","r","a","g","r","a","p","h",".">>, <<>>, <<"#","#"," ","S","t","e","p","s">>, <<"1","."," ","*","*","U","p","l","o","a","d","*","*"," ","-"," ","P","i","c","k"," ","a"," ","f","i","l","e">>>>

MarkdownFile(dialect, title, heading, h1) ==
    CASE dialect = "front" ->
             <<<<"-","-","-">>>> \o MetaLines(title, heading) \o <<<<"-","-","-">>>> \o BodyLines(h1)
      [] dialect = "meta" ->
             <<<<"[","m","e","t","a","]">>>> \o MetaLines(title, heading) \o << <<>> >> \o BodyLines(h1)
      [] OTHER -> BodyLines(h1)

MarkdownFiles ==
    {MarkdownFile(dialect, title, heading, h1) :
        dialect \in {"front", "meta", "none"},
        title \in {<<>>, <<"A","l","p","h","a">>},
        heading \in {<<>>, <<"L","e","a","d">>},
        h1 \in {<<>>, <<"A","l","p","h","a">>, <<"B","e","t","a">>}}

\* ---- content files made of depth-2 sections

MaxBodySections == 2

\* sections: steps; pricing in upper case; a heading that starts with a
\* keyword; a FAQ and a feature heading only parseMarkdownContent knows; a
\* CTA with a link; a CTA heading without a link; a section without
\* content; related links; a section of no kind
SectionBlocks ==
    <<<<<<"#","#"," ","S","t","e","p","s">>, <<"1","."," ","*","*","U","p","l","o","a","d","*","*"," ","-"," ","P","i","c","k"," ","a"," ","f","i","l","e">>>>,
     <<<<"#","#"," ","P","R","I","C","I","N","G">>, <<"O","n","e"," ","d","o","l","l","a","r",".">>>>,
     <<<<"#","#"," ","P","r","i","c","i","n","g"," ","p","l","a","n","s">>, <<"S","e","e"," ","t","h","e"," ","p","l","a","n","s",".">>>>,
     <<<<"#","#"," ","P","r","i","c","i","n","g"," ","F","A","Q","s">>, <<"-"," ","*","*","I","s"," ","i","t"," ","s","a","f","e","?","*","*"," ","Y","e","s",".">>>>,
     <<<<"#","#"," ","W","h","a","t"," ","y","o","u"," ","g","e","t">>, <<"-"," ","F","a","s","t">>>>,
     <<<<"#","#"," ","C","T","A">>, <<"[","S","t","a","r","t","]","(","/","s","t","a","r","t",")">>>>,
     <<<<"#","#"," ","N","e","x","t"," ","s","t","e","p","s">>, <<"N","o"," ","l","i","n","k"," ","h","e","r","e",".">>>>,
     <<<<"#","#"," ","O","v","e","r","v","i","e","w">>>>,
     <<<<"#","#"," ","R","e","l","a","t","e","d">>, <<"[","D","o","c","s","]","(","/","d","o","c","s",")">>>>,
     <<<<"#","#"," ","L","i","m","i","t","s">>, <<"T","e","n"," ","f","i","l","e","s",".">>>> >>

\* at most n of the blocks, in this order and in the opposite order
BlockLists(n) ==
    SubLists(SectionBlocks, n) \cup {Reversed(blocks) : blocks \in SubLists(SectionBlocks, n)}

\* the blocks one after another, a blank line after each
RECURSIVE BlockLines(_)
BlockLines(blocks) ==
    IF blocks = <<>> THEN <<>> ELSE Head(blocks) \o << <<>> >> \o BlockLines(Tail(blocks))

\* the metadata: none, a CTA label alone, a CTA label with href and note
CtaMetaChoices ==
    {<<>>,
     <<<<"c","t","a","-","l","a","b","e","l",":"," ","B","u","y">>>>,
     <<<<"c","t","a","-","l","a","b","e","l",":"," ","B","u","y">>, <<"c","t","a","-","h","r","e","f",":"," ","/","b","u","y">>, <<"c","t","a","-","n","o","t","e",":"," ","T","o","d","a","y">>>>}

SectionFile(metaLines, blocks) ==
    (IF metaLines = <<>> THEN <<>>
     ELSE <<<<"[","m","e","t","a","]">>>> \o metaLines \o << <<>> >>)
    \o <<<<"#"," ","A","l","p","h","a">>, <<>>, <<"O","p","e","n","i","n","g"," ","p","a","r","a","g","r","a","p","h",".">>, <<>>>> \o BlockLines(blocks)

SectionFiles ==
    {SectionFile(metaLines, blocks) :
        metaLines \in CtaMetaChoices, blocks \in BlockLists(MaxBodySections)}

NotParsed ==
    [ParsedMarkdown(<<>>, <<>>, Summary(<<>>, <<>>, <<>>, <<>>), NoFragments)
        EXCEPT !.done = FALSE]

\* the static routes in front of the numbered ones
LeadingRoutes == {<<>>, <<Route(<<"/">>, TRUE)>>, <<Route(<<"/">>, FALSE)>>}

\* how many numbered routes there are: few, or about one or two full
\* sitemap files
NumberedRouteCounts ==
    (0..MaxSmallRoutes)
        \cup {MAX_URLS_PER_SITEMAP - 1, MAX_URLS_PER_SITEMAP, MAX_URLS_PER_SITEMAP + 1,
               2 * MAX_URLS_PER_SITEMAP, 2 * MAX_URLS_PER_SITEMAP + 1}

PagesChoice ==
    <<File(<<"i","n","d","e","x",".","m","d">>, <<>>, TRUE),
      File(<<"a","b","o","u","t",".","m","d">>, <<>>, TRUE)>>


\* the configured llms.txt sections: headings holding one keyword, two
\* keywords, a keyword in upper case, and a section without lines
LlmsSectionUniverse ==
    {LlmsSection(<<"D","o","c","s">>, <<>>, <<Link(<<"A","P","I">>, <<"/","a","p","i",".","m","d">>)>>),
     LlmsSection(<<"P","R","O","D","U","C","T"," ","d","o","c","s">>, <<>>, <<Link(<<"S","D","K">>, <<"/","s","d","k",".","m","d">>)>>),
     LlmsSection(<<"C","o","m","p","a","n","y">>, <<<<"W","e",".">>>>, <<>>),
     LlmsSection(<<"L","e","g","a","l">>, <<>>, <<Link(<<"T","e","r","m","s">>, <<"/","t",".","m","d">>)>>),
     LlmsSection(<<"L","e","g","a","l"," ","n","o","t","e","s">>, <<>>, <<>>)}

\* the section lists of at most n sections with distinct headings
LlmsSectionLists(n) ==
    {l \in Listings(LlmsSectionUniverse, n) :
        \A i, j \in DOMAIN l : l[i].heading = l[j].heading => i = j}

ArticlesPlacements ==
    {"", "after-docs", "after-product", "after-company", "before-legal", "end", "omit"}

\* llms.template: absent, the sections alone, and every block named
LlmsTemplates ==
    {<<>>,
     <<<<"{","{"," ","s","e","c","t","i","o","n","s"," ","}","}">>>>,
     <<<<"{","{","s","i","t","e","N","a","m","e","}","}">>, <<"{","{","a","r","t","i","c","l","e","s","}","}">>, <<"{","{"," ","s","e","c","t","i","o","n","s"," ","}","}">>>>}

ArticleLinkLists == {<<>>, <<Link(<<"P","o","s","t"," ","1">>, <<"/","p","1",".","m","d">>), Link(<<"P","o","s","t"," ","2">>, <<"/","p","2",".","m","d">>)>>}

\* the site-level fields and their llms overrides
LlmsHeadChoices ==
    {[siteName |-> <<>>, siteSummary |-> <<>>, contact |-> <<>>, capabilities |-> <<>>,
      title |-> <<>>, summary |-> <<>>],
     [siteName |-> <<"E","x">>, siteSummary |-> <<"S","u","m">>, contact |-> <<"a","@","b">>,
      capabilities |-> <<<<"S","e","a","r","c","h">>>>, title |-> <<>>, summary |-> <<"L","l","m">>]}

LlmsOptions(head, sections, placement, template, articleLinks) ==
    [config |-> [siteName |-> head.siteName, siteSummary |-> head.siteSummary,
                 contact |-> head.contact, capabilities |-> head.capabilities,
                 llms |-> [title |-> head.title, summary |-> head.summary,
                           contact |-> <<>>, capabilities |-> <<>>,
                           sections |-> sections, articlesPlacement |-> placement,
                           template |-> template]],
     baseUrl |-> <<"h","t","t","p","s",":","/","/","x">>,
     articleLinks |-> articleLinks]

-----------------------------------------------------------------------------
(* generateSeoArtifacts, one action per stage between its awaited writes *)

inputVars == <<marketingFiles, templates, pagesFiles>>

\* lines 90-116: resolve the config, build the marketing routes; a duplicate
\* marketing route throws here, before anything is written
GenStartWith(routes) ==
    IF routes.threw
    THEN Abort(routes.error)
    ELSE /\ run' = [NoRun EXCEPT !.marketingRoutes =
                       [k \in DOMAIN routes.records |->
                           Route(routes.records[k].path, routes.records[k].indexable)]]
         /\ gpc' = "writeMarketingRoutes"
         /\ result' = NoResult

GenStart ==
    /\ gpc = "idle"
    /\ runs < MaxRuns
    /\ runs' = runs + 1
    /\ \E cfg \in GenConfigs : genConfig' = cfg
    /\ GenStartWith(buildMarketingRoutesFromFilesystem(marketingFiles))
    /\ UNCHANGED <<inputVars, generatedDir, cachedIndex, artifacts, publicFiles, built>>
    /\ UNCHANGED otherVars

\* lines 118-119: writeMarketingRoutesFile
GenWriteMarketingRoutes ==
    /\ gpc = "writeMarketingRoutes"
    /\ WriteArtifact(run, "marketing_routes.json",
                     [kind |-> "routes", entries |-> run.marketingRoutes])
    /\ gpc' = "marketingContent"
    /\ UNCHANGED <<inputVars, generatedDir, genConfig, cachedIndex, publicFiles,
                   result, runs, built>>
    /\ UNCHANGED otherVars

\* lines 132-148: the marketing content index and marketing_content.json
GenMarketingContentWith(content) ==
    IF content.threw
    THEN Abort(content.error) /\ UNCHANGED artifacts
    ELSE /\ WriteArtifact([run EXCEPT !.marketingContent = content.records],
                          "marketing_content.json",
                          [kind |-> "content", entries |-> content.records])
         /\ gpc' = "programmaticMarkdown"
         /\ UNCHANGED result

GenMarketingContent ==
    /\ gpc = "marketingContent"
    /\ GenMarketingContentWith(buildMarketingContentIndexFromFilesystem(marketingFiles))
    /\ UNCHANGED <<inputVars, generatedDir, genConfig, cachedIndex, publicFiles, runs, built>>
    /\ UNCHANGED otherVars

\* lines 150-153: writeProgrammaticMarkdownFiles, a fresh template expansion
\* written into the generated directory
GenProgrammaticMarkdownWith(expanded) ==
    IF expanded.threw
    THEN Abort(expanded.error) /\ UNCHANGED generatedDir
    ELSE /\ generatedDir' = WriteGeneratedFiles(generatedDir, expanded.index.pages)
         /\ run' = [run EXCEPT !.programmaticMarkdownCount = Len(expanded.index.pages)]
         /\ gpc' = "seoContent"
         /\ UNCHANGED result

GenProgrammaticMarkdown ==
    /\ gpc = "programmaticMarkdown"
    /\ IF genConfig.generateProgrammaticMarkdown
       THEN GenProgrammaticMarkdownWith(buildProgrammaticIndex(templates))
       ELSE /\ gpc' = "seoContent"
            /\ UNCHANGED <<generatedDir, run, result>>
    /\ UNCHANGED <<inputVars, genConfig, cachedIndex, artifacts, publicFiles, runs, built>>
    /\ UNCHANGED otherVars

\* lines 155-156: the content index of pages and generated files
GenSeoContent ==
    /\ gpc = "seoContent"
    /\ LET index == buildSeoContentIndexFromFilesystem(pagesFiles, generatedDir)
       IN  WriteArtifact([run EXCEPT !.seoContentIndex = index], "seo_content.json",
                         [kind |-> "content", entries |-> index])
    /\ gpc' = "routes"
    /\ UNCHANGED <<inputVars, generatedDir, genConfig, cachedIndex, publicFiles,
                   result, runs, built>>
    /\ UNCHANGED otherVars

\* lines 158-163: the route list; getProgrammaticSeoRoutes goes through
\* getIndex(config), the process-wide memo
GenRoutesWith(got) ==
    IF got.threw
    THEN Abort(got.error) /\ UNCHANGED cachedIndex
    ELSE /\ cachedIndex' = got.index
         /\ run' = [run EXCEPT
                       !.programmaticRoutes = ProgrammaticRoutes(got.index),
                       !.routes = Listed(dedupeRoutes(
                                             StaticRoutes \o run.marketingRoutes
                                                 \o ProgrammaticRoutes(got.index)))]
         /\ gpc' = "sitemapPlan"
         /\ UNCHANGED result

GenRoutes ==
    /\ gpc = "routes"
    /\ GenRoutesWith(getIndex(cachedIndex, FALSE, generatedDir, templates))
    /\ UNCHANGED <<inputVars, generatedDir, genConfig, artifacts, publicFiles, runs, built>>
    /\ UNCHANGED otherVars

\* lines 163-169: the indexable entries, chunked
GenSitemapPlan ==
    /\ gpc = "sitemapPlan"
    /\ run' = [run EXCEPT !.sitemapChunks =
                              chunk(buildSitemapEntries(IndexableRoutes(run.routes)),
                                    MAX_URLS_PER_SITEMAP),
                          !.sitemapIndexEntries = <<>>,
                          !.index = 0]
    /\ gpc' = "sitemapWrite"
    /\ UNCHANGED <<inputVars, generatedDir, genConfig, cachedIndex, artifacts, publicFiles,
                   result, runs, built>>
    /\ UNCHANGED otherVars

\* lines 171-173: at most one chunk, a plain sitemap.xml
GenSitemapWritePlain ==
    /\ gpc = "sitemapWrite"
    /\ Len(run.sitemapChunks) <= 1
    /\ WriteArtifact(run, "sitemap.xml",
                     [kind |-> "urlset",
                      entries |-> IF run.sitemapChunks = <<>> THEN Listed(<<>>)
                                  ELSE run.sitemapChunks[1]])
    /\ gpc' = "robots"
    /\ UNCHANGED <<inputVars, generatedDir, genConfig, cachedIndex, publicFiles,
                   result, runs, built>>
    /\ UNCHANGED otherVars

\* lines 176-185: one iteration of the chunk loop
GenSitemapWriteChunk ==
    /\ gpc = "sitemapWrite"
    /\ Len(run.sitemapChunks) > 1
    /\ run.index < Len(run.sitemapChunks)
    /\ LET chunkName == "sitemap-" \o ToString(run.index + 1) \o ".xml"
       IN  WriteArtifact([run EXCEPT !.sitemapIndexEntries = Append(@, chunkName),
                                     !.index = @ + 1],
                         chunkName,
                         [kind |-> "urlset", entries |-> run.sitemapChunks[run.index + 1]])
    /\ UNCHANGED <<inputVars, generatedDir, genConfig, cachedIndex, publicFiles,
                   gpc, result, runs, built>>
    /\ UNCHANGED otherVars

\* lines 186-187: the sitemap index at sitemap.xml
GenSitemapWriteIndex ==
    /\ gpc = "sitemapWrite"
    /\ Len(run.sitemapChunks) > 1
    /\ run.index >= Len(run.sitemapChunks)
    /\ WriteArtifact(run, "sitemap.xml",
                     [kind |-> "sitemapindex", entries |-> run.sitemapIndexEntries])
    /\ gpc' = "robots"
    /\ UNCHANGED <<inputVars, generatedDir, genConfig, cachedIndex, publicFiles,
                   result, runs, built>>
    /\ UNCHANGED otherVars

\* lines 190-211: robots.txt, sitemap.md and llms.txt
GenRobotsLlms ==
    /\ gpc = "robots"
    /\ artifacts' = WriteFile(WriteFile(WriteFile(artifacts,
                        "robots.txt", [kind |-> "robots", entries |-> <<>>]),
                        "sitemap.md", [kind |-> "sitemapMd", entries |-> <<>>]),
                        "llms.txt", [kind |-> "llms", entries |-> <<>>])
    /\ run' = [run EXCEPT !.written = @ \o <<"robots.txt", "sitemap.md", "llms.txt">>]
    /\ gpc' = "publicMarkdown"
    /\ UNCHANGED <<inputVars, generatedDir, genConfig, cachedIndex, publicFiles,
                   result, runs, built>>
    /\ UNCHANGED otherVars

\* lines 213-237: the markdown targets by path: marketing pages, then static
\* pages, then (when configured) the pages of the content index
MarkdownTargetPaths(marketingContent, staticContent, seoContentIndex, fromProgrammatic) ==
    LET indexableOf(records) ==
            {records[k].path : k \in {j \in DOMAIN records : records[j].indexable}}
    IN  indexableOf(marketingContent) \cup indexableOf(staticContent)
            \cup (IF fromProgrammatic THEN indexableOf(seoContentIndex) ELSE {})

\* lines 213-260: the public markdown copies
GenPublicMarkdown ==
    /\ gpc = "publicMarkdown"
    /\ LET staticContent == buildSeoStaticContentIndexFromFilesystem(pagesFiles)
           targets == MarkdownTargetPaths(run.marketingContent, staticContent,
                                          run.seoContentIndex,
                                          genConfig.publicMarkdownFromProgrammatic)
       IN  IF genConfig.generatePublicMarkdown
           THEN /\ publicFiles' = publicFiles \cup {toMarkdownOutputPath(t) : t \in targets}
                /\ run' = [run EXCEPT !.markdownOutputCount = Cardinality(targets)]
           ELSE UNCHANGED <<publicFiles, run>>
    /\ gpc' = "validate"
    /\ UNCHANGED <<inputVars, generatedDir, genConfig, cachedIndex, artifacts,
                   result, runs, built>>
    /\ UNCHANGED otherVars

\* lines 262-275: validateProgrammaticPages over getIndex(config).pages, and
\* the returned result
GenValidateWith(got) ==
    IF got.threw
    THEN Abort(got.error) /\ UNCHANGED cachedIndex
    ELSE /\ cachedIndex' = got.index
         /\ result' = [status |-> "returned",
                       routes |-> run.routes,
                       programmaticRoutes |-> run.programmaticRoutes,
                       programmaticMarkdownCount |-> run.programmaticMarkdownCount,
                       markdownOutputCount |-> run.markdownOutputCount,
                       validatedPaths |-> [k \in DOMAIN got.index.pages |->
                                              got.index.pages[k].path],
                       written |-> run.written]
         /\ gpc' = "idle"
         /\ run' = NoRun

GenValidate ==
    /\ gpc = "validate"
    /\ GenValidateWith(getIndex(cachedIndex, FALSE, generatedDir, templates))
    /\ UNCHANGED <<inputVars, generatedDir, genConfig, artifacts, publicFiles, runs, built>>
    /\ UNCHANGED otherVars

\* buildProgrammaticPagesFromTemplates called directly
CallBuildProgrammaticIndex ==
    /\ gpc = "idle"
    /\ built' = buildProgrammaticIndex(templates)
    /\ UNCHANGED <<inputVars, generatedDir, genConfig, cachedIndex, artifacts, publicFiles,
                   gpc, run, result, runs>>
    /\ UNCHANGED otherVars

\* getProgrammaticPagesIndex called on its own: getIndex(config)
CallGetIndexWith(got) ==
    /\ built' = got
    /\ cachedIndex' = IF got.threw THEN cachedIndex ELSE got.index

CallGetProgrammaticPagesIndex ==
    /\ gpc = "idle"
    /\ ~built.threw
    /\ ~built.index.set
    /\ CallGetIndexWith(getIndex(cachedIndex, FALSE, generatedDir, templates))
    /\ UNCHANGED <<inputVars, generatedDir, genConfig, artifacts, publicFiles,
                   gpc, run, result, runs>>
    /\ UNCHANGED otherVars

\* between two invocations the templates and datasets are edited
EditTemplates ==
    /\ gpc = "idle"
    /\ runs >= 1
    /\ runs < MaxRuns
    /\ \E t \in TemplateChoices : t # templates /\ templates' = t
    /\ UNCHANGED <<marketingFiles, pagesFiles, generatedDir, genConfig, cachedIndex,
                   artifacts, publicFiles, gpc, run, result, runs, built>>
    /\ UNCHANGED otherVars

-----------------------------------------------------------------------------
(* The registry's static index built directly *)

NotBuilt == [built |-> FALSE, records |-> <<>>]

CallBuildSeoStaticContentIndex ==
    /\ builtStatic' = [built |-> TRUE,
                       records |-> buildSeoStaticContentIndexFromFilesystem(pagesFiles)]
    /\ UNCHANGED <<pipelineVars, accessVars, deliveryVars, toolVars>>

-----------------------------------------------------------------------------
(* The marketing index built directly *)

NotBuiltMarketing == [built |-> FALSE, outcome |-> Returned(<<>>)]

CallBuildMarketingContentIndex ==
    /\ builtMarketing' = [built |-> TRUE,
                          outcome |-> buildMarketingContentIndexFromFilesystem(marketingFiles)]
    /\ UNCHANGED <<pipelineVars, builtStatic, accessVars, deliveryVars, llmsVars,
                   markdownVars, publicContent, publicMarkdown, builtPages,
                   issues, routeDates>>

-----------------------------------------------------------------------------
(* The public markdown copies: the targets selected, then written by
   callbacks that run concurrently *)

MaxPages == 2

\* a page of a content index
PublicPage(pathValue, title, indexable, llms) ==
    [SeoPageContent(title, <<>>, <<>>, <<>>, NoCta, <<>>)
        EXCEPT !.path = pathValue, !.indexable = indexable, !.llms = llms]

\* marketing pages, sorted by path: one with a body, one whose body is
\* blank, one that opts out of llms
MarketingPages ==
    <<MarketingEntry(PublicPage(<<"/","a","b","o","u","t">>, <<"A","b","o","u","t"," ","u","s">>, "true", "unset"),
                     <<"W","e"," ","m","a","i","l"," ","P","D","F","s",".">>),
      MarketingEntry(PublicPage(<<"/","b","l","o","g">>, <<"B","l","o","g">>, "true", "unset"),
                     <<" "," ","\n">>),
      MarketingEntry(PublicPage(<<"/","l","e","g","a","l">>, <<"L","e","g","a","l">>, "true", "false"),
                     <<"T","e","r","m","s",".">>)>>

\* pages of content/pages: the directory index, two that share a path with a
\* marketing page, one whose `path` metadata is /index, one not indexable
StaticPages ==
    <<PublicPage(<<"/">>, <<"H","o","m","e">>, "true", "unset"),
      PublicPage(<<"/","a","b","o","u","t">>, <<"A","b","o","u","t"," ","(","p","a","g","e",")">>, "true", "unset"),
      PublicPage(<<"/","b","l","o","g">>, <<"B","l","o","g"," ","(","p","a","g","e",")">>, "true", "unset"),
      PublicPage(<<"/","i","n","d","e","x">>, <<"I","n","d","e","x">>, "true", "unset"),
      PublicPage(<<"/","l","e","g","a","l">>, <<"L","e","g","a","l"," ","(","p","a","g","e",")">>, "false", "unset")>>

\* pages of content/seo/generated: one of its own path, one that shares a
\* path with a marketing and a static page
GeneratedPages ==
    <<PublicPage(<<"/","g","u","i","d","e","s","/","a">>, <<"G","u","i","d","e"," ","a">>, "true", "unset"),
      PublicPage(<<"/","a","b","o","u","t">>, <<"A","b","o","u","t"," ","(","g","u","i","d","e",")">>, "true", "unset")>>

\* the three indexes generateSeoArtifacts selects from; seoContentIndex is
\* the static pages followed by the generated ones
PublicContent(marketingContentWithDates, staticContent, generated) ==
    [marketingContentWithDates |-> marketingContentWithDates,
     staticContent |-> staticContent,
     seoContentIndex |-> staticContent \o generated]

NoPublicContent == PublicContent(<<>>, <<>>, <<>>)

PublicContents ==
    {PublicContent(marketing, static, generated) :
        marketing \in SubLists(MarketingPages, MaxPages),
        static \in SubLists(StaticPages, MaxPages),
        generated \in SubLists(GeneratedPages, MaxPages)}

\* stage: "idle", then "select" -> "writing" -> "done"; writers[k] is the
\* await the callback of targets[k] is at: "mkdir", "writeFile" or "done"
PublicMarkdown(stage, targets, writers, results, files, markdownOutputCount) ==
    [stage |-> stage, targets |-> targets, writers |-> writers, results |-> results,
     files |-> files, markdownOutputCount |-> markdownOutputCount]

NoPublicMarkdown == PublicMarkdown("idle", <<>>, <<>>, <<>>, NoFiles, 0)

AllAt(targets, position) == [k \in DOMAIN targets |-> position]

\* the targets are selected; with generatePublicMarkdown every callback runs
\* to its first await inside Promise.all's map
SelectedWith(targets) ==
    IF genConfig.generatePublicMarkdown
    THEN PublicMarkdown("writing", targets, AllAt(targets, "mkdir"), AllAt(targets, 0),
                        publicMarkdown.files, 0)
    ELSE PublicMarkdown("done", targets, AllAt(targets, "done"), AllAt(targets, 0),
                        publicMarkdown.files, 0)

SelectMarkdownTargets ==
    /\ publicMarkdown.stage = "select"
    /\ publicMarkdown' =
           SelectedWith(markdownTargets(publicContent.marketingContentWithDates,
                                        publicContent.staticContent,
                                        publicContent.seoContentIndex,
                                        genConfig.publicMarkdownFromProgrammatic))
    /\ UNCHANGED <<pipelineVars, builtStatic, accessVars, deliveryVars, llmsVars,
                   markdownVars, builtMarketing, publicContent, builtPages,
                   issues, routeDates>>

\* `await fs.mkdir(...)` of one callback resolves: the callback returns 0
\* for an untitled page that must not be empty, or renders and starts
\* fs.writeFile
MkdirDone(k) ==
    /\ publicMarkdown.stage = "writing"
    /\ publicMarkdown.writers[k] = "mkdir"
    /\ publicMarkdown' =
           [publicMarkdown EXCEPT
               !.writers[k] =
                   IF publicMarkdown.targets[k].allowEmpty = "false"
                      /\ publicMarkdown.targets[k].content.title = <<>>
                   THEN "done" ELSE "writeFile"]
    /\ UNCHANGED <<pipelineVars, builtStatic, accessVars, deliveryVars, llmsVars,
                   markdownVars, builtMarketing, publicContent, builtPages,
                   issues, routeDates>>

\* `await fs.writeFile(outputPath, markdown)` of one callback resolves: the
\* file holds the rendered page and the callback returns 1
WriteFileDone(k) ==
    /\ publicMarkdown.stage = "writing"
    /\ publicMarkdown.writers[k] = "writeFile"
    /\ publicMarkdown' =
           [publicMarkdown EXCEPT
               !.writers[k] = "done",
               !.results[k] = 1,
               !.files = WriteFile(@, toMarkdownOutputPath(publicMarkdown.targets[k].content.path),
                                   renderSeoMarkdown(publicMarkdown.targets[k].content))]
    /\ UNCHANGED <<pipelineVars, builtStatic, accessVars, deliveryVars, llmsVars,
                   markdownVars, builtMarketing, publicContent, builtPages,
                   issues, routeDates>>

\* Promise.all resolves once every callback has returned; the results are
\* summed into markdownOutputCount
WritesSettled ==
    /\ publicMarkdown.stage = "writing"
    /\ \A k \in DOMAIN publicMarkdown.writers : publicMarkdown.writers[k] = "done"
    /\ publicMarkdown' = [publicMarkdown EXCEPT !.stage = "done",
                                                !.markdownOutputCount = SumOf(publicMarkdown.results)]
    /\ UNCHANGED <<pipelineVars, builtStatic, accessVars, deliveryVars, llmsVars,
                   markdownVars, builtMarketing, publicContent, builtPages,
                   issues, routeDates>>

-----------------------------------------------------------------------------
(* The programmatic pages built from the templates and validated directly *)

NotBuiltPages == [built |-> FALSE, outcome |-> Returned(<<>>)]

NotValidated == [validated |-> FALSE, outcome |-> Returned(<<>>)]

CallBuildProgrammaticPagesFromTemplates ==
    /\ gpc = "idle"
    /\ ~builtPages.built
    /\ builtPages' = [built |-> TRUE,
                      outcome |-> buildProgrammaticPagesFromTemplates(templates)]
    /\ UNCHANGED <<pipelineVars, builtStatic, accessVars, deliveryVars, llmsVars,
                   markdownVars, builtMarketing, publicContent, publicMarkdown, issues,
                   routeDates>>

\* validateProgrammaticPages in a process that has not built the index yet
\* and has no generated markdown: getIndex builds the index from the
\* templates and keeps it
ValidateWith(got) ==
    /\ issues' = [validated |-> TRUE,
                  outcome |-> IF got.threw THEN got
                              ELSE Returned(validateProgrammaticPages(got.records))]
    /\ cachedIndex' = IF got.threw THEN cachedIndex
                      ELSE buildProgrammaticIndex(templates).index

CallValidateProgrammaticPages ==
    /\ gpc = "idle"
    /\ generatedDir = <<>>
    /\ ~cachedIndex.set
    /\ ~issues.validated
    /\ ValidateWith(buildProgrammaticPagesFromTemplates(templates))
    /\ UNCHANGED <<inputVars, generatedDir, genConfig, artifacts, publicFiles, gpc, run,
                   result, runs, built>>
    /\ UNCHANGED <<builtStatic, accessVars, deliveryVars, llmsVars, markdownVars,
                   builtMarketing, publicContent, publicMarkdown, builtPages, routeDates>>

-----------------------------------------------------------------------------
(* Calls of the memoizing accessors, and the environment between them *)

NoCall ==
    [refresh |-> FALSE, source |-> "default", threw |-> FALSE, value |-> <<>>,
     error |-> <<>>]

NotComputed == [has |-> FALSE, value |-> <<>>]

\* the call's outcome is observed; a first or refreshing call that returns
\* becomes the most recent computing call
ObserveCall(out, refresh, sourceOption) ==
    /\ lastCall' = [refresh |-> refresh, source |-> sourceOption, threw |-> out.threw,
                    value |-> out.value, error |-> out.error]
    /\ computed' = IF (~computed.has \/ refresh) /\ ~out.threw
                   THEN [has |-> TRUE, value |-> out.value]
                   ELSE computed
    /\ calls' = calls + 1

SeoContentIndexCalled(out, refresh) ==
    /\ registryCachedIndex' = out.memo
    /\ ObserveCall(out, refresh, "default")

CallGetSeoContentIndex ==
    /\ accessor = "getSeoContentIndex"
    /\ calls < MaxCalls
    /\ \E refresh \in BOOLEAN :
           SeoContentIndexCalled(
               getSeoContentIndex(registryCachedIndex, refresh, nodeEnv, cacheFile,
                                  pagesFiles, generatedDir),
               refresh)
    /\ UNCHANGED <<pipelineVars, toolVars, builtStatic, deliveryVars, accessor, nodeEnv, cacheFile,
                   cachedRoutes, cachedContent>>

MarketingRoutesCalled(out, refresh, sourceOption) ==
    /\ cachedRoutes' = out.memo
    /\ ObserveCall(out, refresh, sourceOption)

CallGetMarketingRoutes ==
    /\ accessor = "getMarketingRoutes"
    /\ calls < MaxCalls
    /\ \E refresh \in BOOLEAN, sourceOption \in SourceOptions :
           MarketingRoutesCalled(
               getMarketingRoutes(cachedRoutes, refresh, sourceOption, nodeEnv, cacheFile,
                                  marketingFiles),
               refresh, sourceOption)
    /\ UNCHANGED <<pipelineVars, toolVars, builtStatic, deliveryVars, accessor, nodeEnv, cacheFile,
                   registryCachedIndex, cachedContent>>

MarketingContentIndexCalled(out, refresh, sourceOption) ==
    /\ cachedContent' = out.memo
    /\ ObserveCall(out, refresh, sourceOption)

CallGetMarketingContentIndex ==
    /\ accessor = "getMarketingContentIndex"
    /\ calls < MaxCalls
    /\ \E refresh \in BOOLEAN, sourceOption \in SourceOptions :
           MarketingContentIndexCalled(
               getMarketingContentIndex(cachedContent, refresh, sourceOption, nodeEnv,
                                        cacheFile, marketingFiles),
               refresh, sourceOption)
    /\ UNCHANGED <<pipelineVars, toolVars, builtStatic, deliveryVars, accessor, nodeEnv, cacheFile,
                   registryCachedIndex, cachedRoutes>>

\* the content directories are edited between calls
EditContent ==
    /\ calls < MaxCalls
    /\ \E c \in ContentChoices :
           /\ <<c.pages, c.marketing>> # <<pagesFiles, marketingFiles>>
           /\ pagesFiles' = c.pages
           /\ marketingFiles' = c.marketing
    /\ UNCHANGED <<templates, generatedDir, genConfig, cachedIndex, artifacts, publicFiles,
                   gpc, run, result, runs, built, builtStatic, accessVars, deliveryVars,
                   toolVars>>

\* the cache file is written, removed or damaged between calls
EditCacheFile ==
    /\ calls < MaxCalls
    /\ \E f \in CacheFileStates : f # cacheFile /\ cacheFile' = f
    /\ UNCHANGED <<pipelineVars, toolVars, builtStatic, deliveryVars, accessor, nodeEnv,
                   registryCachedIndex, cachedRoutes, cachedContent, computed, lastCall,
                   calls>>

-----------------------------------------------------------------------------
(* Markdown delivery: the negotiator called directly, and the Express
   middleware handling the request *)

NotRendered == [called |-> FALSE, wants |-> FALSE, response |-> NoResponse]

CallMaybeRenderMarkdown ==
    /\ ~rendered.called
    /\ rendered' = [called |-> TRUE,
                    wants |-> isMarkdownRequest(markdownConfig, request),
                    response |-> maybeRenderMarkdown(markdownConfig, request,
                                                     indexablePaths, contentPaths)]
    /\ UNCHANGED <<pipelineVars, toolVars, builtStatic, accessVars, request, markdownConfig,
                   indexablePaths, contentPaths, handled, expressCalls, callbacks>>

ExpressMiddleware ==
    /\ ~handled
    /\ handled' = TRUE
    /\ expressCalls' = ExpressHandler(markdownConfig, request, indexablePaths, contentPaths)
    /\ UNCHANGED <<pipelineVars, toolVars, builtStatic, accessVars, request, markdownConfig,
                   indexablePaths, contentPaths, rendered, callbacks>>

\* ---- maybeRenderMarkdown with the calls of its two callbacks as steps

NoCallbacks == [pc |-> "idle", targetPath |-> <<>>, calls |-> <<>>, response |-> NoResponse]

CallbackCall(callback, pathValue, returned) ==
    [callback |-> callback, pathValue |-> pathValue, returned |-> returned]

\* a variant that goes on to resolveContent whatever isIndexable said
ResolveAnyway(got, indexable) == [got EXCEPT !.pc = "resolveContent"]

\* if (!options.isIndexable(targetPath)) return null
AfterIsIndexable(got, indexable) ==
    IF indexable THEN [got EXCEPT !.pc = "resolveContent"]
    ELSE [got EXCEPT !.pc = "returned", !.response = NoResponse]

\* the function up to its first callback: the target path is computed, a
\* request that does not want markdown returns null
EnterMaybeRenderMarkdown ==
    /\ callbacks.pc = "idle"
    /\ callbacks' =
           IF ~isMarkdownRequest(markdownConfig, request)
           THEN [NoCallbacks EXCEPT !.pc = "returned",
                     !.targetPath = targetPathOf(markdownConfig, normalizePath(request.url))]
           ELSE [NoCallbacks EXCEPT !.pc = "isIndexable",
                     !.targetPath = targetPathOf(markdownConfig, normalizePath(request.url))]
    /\ UNCHANGED <<pipelineVars, toolVars, builtStatic, accessVars, request, markdownConfig,
                   indexablePaths, contentPaths, rendered, handled, expressCalls>>

\* options.isIndexable(targetPath) is invoked and returns
IsIndexableReturns ==
    /\ callbacks.pc = "isIndexable"
    /\ callbacks' =
           AfterIsIndexable(
               [callbacks EXCEPT !.calls =
                   Append(@, CallbackCall("isIndexable", callbacks.targetPath,
                                          callbacks.targetPath \in indexablePaths))],
               callbacks.targetPath \in indexablePaths)
    /\ UNCHANGED <<pipelineVars, toolVars, builtStatic, accessVars, request, markdownConfig,
                   indexablePaths, contentPaths, rendered, handled, expressCalls>>

\* options.resolveContent(targetPath) is invoked and returns; the content
\* is rendered when there is one
ResolveContentReturns ==
    /\ callbacks.pc = "resolveContent"
    /\ callbacks' =
           [callbacks EXCEPT
               !.pc = "returned",
               !.calls = Append(@, CallbackCall("resolveContent", callbacks.targetPath,
                                                callbacks.targetPath \in contentPaths)),
               !.response = IF callbacks.targetPath \in contentPaths
                            THEN MarkdownResponse(callbacks.targetPath) ELSE NoResponse]
    /\ UNCHANGED <<pipelineVars, toolVars, builtStatic, accessVars, request, markdownConfig,
                   indexablePaths, contentPaths, rendered, handled, expressCalls>>

-----------------------------------------------------------------------------
(* buildLlmsTxt called on its own *)

NoText == [built |-> FALSE, lines |-> <<>>]

CallBuildLlmsTxt ==
    /\ ~llmsText.built
    /\ llmsText' = [built |-> TRUE, lines |-> buildLlmsTxt(llmsOptions)]
    /\ UNCHANGED <<pipelineVars, builtStatic, accessVars, deliveryVars, llmsOptions,
                   markdownVars, directVars>>

-----------------------------------------------------------------------------
(* renderSeoMarkdown and the two parsers called on their own *)

CallRenderSeoMarkdown ==
    /\ seoPage.set
    /\ markdownFile = <<>>
    /\ markdownFile' = renderSeoMarkdown(seoPage)
    /\ UNCHANGED <<pipelineVars, builtStatic, accessVars, deliveryVars, llmsVars, directVars,
                   seoPage, parser, parsed>>

CallParseMarkdownContent ==
    /\ markdownFile # <<>>
    /\ parser = "none"
    /\ parser' = "parseMarkdownContent"
    /\ parsed' = parseMarkdownContent(markdownFile)
    /\ UNCHANGED <<pipelineVars, builtStatic, accessVars, deliveryVars, llmsVars, directVars,
                   seoPage, markdownFile>>

CallParseMarketingMarkdown ==
    /\ markdownFile # <<>>
    /\ parser = "none"
    /\ parser' = "parseMarketingMarkdown"
    /\ parsed' = parseMarketingMarkdown(markdownFile)
    /\ UNCHANGED <<pipelineVars, builtStatic, accessVars, deliveryVars, llmsVars, directVars,
                   seoPage, markdownFile>>

-----------------------------------------------------------------------------
(* The marketing routes and their dates over successive runs *)

NoRouteDates ==
    [files |-> <<>>, useGitDates |-> FALSE, git |-> Null,
     cacheFile |-> CacheFile("missing", <<>>), runs |-> <<>>]

\* one run of generateSeoArtifacts as far as the marketing routes go:
\* marketing_routes.json is read, the routes get their dates, the file is
\* written and the routes are returned in result.routes
RunWith(hadCache, withDates) ==
    routeDates' = [routeDates EXCEPT
                      !.cacheFile = CacheFile("array", withDates),
                      !.runs = Append(@, [hadCache |-> hadCache,
                                          routes |-> dedupeRoutes(withDates),
                                          written |-> withDates])]

GenerateMarketingRoutes ==
    /\ routeDates.files # <<>>
    /\ Len(routeDates.runs) < MaxRuns
    /\ RunWith(~readMarketingRoutesFile(routeDates.cacheFile).null,
               marketingRoutesWithDates(routeDates.useGitDates, routeDates.git,
                                        DatedRouteRecords(routeDates.files),
                                        readMarketingRoutesFile(routeDates.cacheFile)))
    /\ UNCHANGED <<pipelineVars, builtStatic, accessVars, deliveryVars, llmsVars,
                   markdownVars, builtMarketing, publicContent, publicMarkdown, builtPages,
                   issues>>

-----------------------------------------------------------------------------
(* Initial states and specifications *)

PipelineIdle ==
    /\ generatedDir = <<>>
    /\ genConfig = [generateProgrammaticMarkdown |-> TRUE,
                    publicMarkdownFromProgrammatic |-> FALSE,
                    generatePublicMarkdown |-> TRUE]
    /\ cachedIndex = NoIndex
    /\ artifacts = NoFiles
    /\ publicFiles = {}
    /\ gpc = "idle"
    /\ run = NoRun
    /\ result = NoResult
    /\ runs = 0
    /\ built = IndexReturned(NoIndex)

AccessIdle ==
    /\ accessor = "getSeoContentIndex"
    /\ nodeEnv = "development"
    /\ cacheFile = CacheFile("missing", <<>>)
    /\ registryCachedIndex = NoMemo
    /\ cachedRoutes = NoMemo
    /\ cachedContent = NoMemo
    /\ computed = NotComputed
    /\ lastCall = NoCall
    /\ calls = 0

DeliveryIdle ==
    /\ request = Request(<<"G","E","T">>, <<"/">>, <<>>, <<>>)
    /\ markdownConfig = [enableAcceptNegotiation |-> TRUE, enableQueryParam |-> TRUE,
                         extension |-> <<".","m","d">>]
    /\ indexablePaths = {}
    /\ contentPaths = {}
    /\ rendered = NotRendered
    /\ handled = FALSE
    /\ expressCalls = <<>>
    /\ callbacks = NoCallbacks

LlmsIdle ==
    /\ llmsOptions = LlmsOptions(CHOOSE h \in LlmsHeadChoices : h.siteName = <<>>,
                                 <<>>, "", <<>>, <<>>)
    /\ llmsText = NoText

MarkdownIdle ==
    /\ seoPage = NoPage
    /\ markdownFile = <<>>
    /\ parser = "none"
    /\ parsed = NotParsed

DirectIdle ==
    /\ builtMarketing = NotBuiltMarketing
    /\ publicContent = NoPublicContent
    /\ publicMarkdown = NoPublicMarkdown
    /\ builtPages = NotBuiltPages
    /\ issues = NotValidated
    /\ routeDates = NoRouteDates

ToolsIdle == LlmsIdle /\ MarkdownIdle /\ DirectIdle

OneGuide == <<Template("guide", GuideRoute, TRUE, <<Record(Slug_a, <<>>, <<>>)>>)>>

\* generateSeoArtifacts over a marketing directory
Init ==
    /\ marketingFiles \in DistinctListings(MarketingUniverse, MaxFiles)
    /\ templates = OneGuide
    /\ pagesFiles = PagesChoice
    /\ PipelineIdle
    /\ builtStatic = NotBuilt
    /\ ToolsIdle
    /\ AccessIdle
    /\ DeliveryIdle

\* below MAX_URLS_PER_SITEMAP + 1 indexable routes the chunk loop of lines
\* 176-187 is not entered
Next ==
    \/ GenStart
    \/ GenWriteMarketingRoutes
    \/ GenMarketingContent
    \/ GenProgrammaticMarkdown
    \/ GenSeoContent
    \/ GenRoutes
    \/ GenSitemapPlan
    \/ GenSitemapWritePlain
    \/ GenRobotsLlms
    \/ GenPublicMarkdown
    \/ GenValidate

Spec == Init /\ [][Next]_vars

\* successive invocations in one process, the templates edited in between
InitRerun ==
    /\ marketingFiles = <<File(<<"i","n","d","e","x",".","m","d">>, <<>>, TRUE)>>
    /\ templates = OneGuide
    /\ pagesFiles = PagesChoice
    /\ PipelineIdle
    /\ builtStatic = NotBuilt
    /\ ToolsIdle
    /\ AccessIdle
    /\ DeliveryIdle

NextRerun ==
    \/ GenStart
    \/ GenWriteMarketingRoutes
    \/ GenMarketingContent
    \/ GenProgrammaticMarkdown
    \/ GenSeoContent
    \/ GenRoutes
    \/ GenSitemapPlan
    \/ GenSitemapWritePlain
    \/ GenRobotsLlms
    \/ GenPublicMarkdown
    \/ GenValidate
    \/ EditTemplates

SpecRerun == InitRerun /\ [][NextRerun]_vars

\* template expansion applied to a template directory
InitProgrammatic ==
    /\ marketingFiles = <<>>
    /\ templates \in TemplateListings(MaxTemplates)
    /\ pagesFiles = PagesChoice
    /\ PipelineIdle
    /\ builtStatic = NotBuilt
    /\ ToolsIdle
    /\ AccessIdle
    /\ DeliveryIdle

NextProgrammatic == CallBuildProgrammaticIndex

SpecProgrammatic == InitProgrammatic /\ [][NextProgrammatic]_vars

\* the static index built from a pages directory
InitRegistry ==
    /\ marketingFiles = <<>>
    /\ templates = <<>>
    /\ pagesFiles \in DistinctListings(PagesUniverse, MaxFiles)
    /\ PipelineIdle
    /\ builtStatic = NotBuilt
    /\ ToolsIdle
    /\ AccessIdle
    /\ DeliveryIdle

NextRegistry == CallBuildSeoStaticContentIndex

SpecRegistry == InitRegistry /\ [][NextRegistry]_vars


\* one accessor called repeatedly while the directories and the cache file
\* change
InitAccess ==
    /\ \E c \in ContentChoices : pagesFiles = c.pages /\ marketingFiles = c.marketing
    /\ templates = <<>>
    /\ PipelineIdle
    /\ builtStatic = NotBuilt
    /\ ToolsIdle
    /\ accessor \in Accessors
    /\ nodeEnv \in {"production", "development"}
    /\ cacheFile \in CacheFileStates
    /\ registryCachedIndex = NoMemo
    /\ cachedRoutes = NoMemo
    /\ cachedContent = NoMemo
    /\ computed = NotComputed
    /\ lastCall = NoCall
    /\ calls = 0
    /\ DeliveryIdle

NextAccess ==
    \/ CallGetSeoContentIndex
    \/ CallGetMarketingRoutes
    \/ CallGetMarketingContentIndex
    \/ EditContent
    \/ EditCacheFile

SpecAccess == InitAccess /\ [][NextAccess]_vars

\* one request through the negotiator and through the middleware
InitDelivery ==
    /\ marketingFiles = <<>>
    /\ templates = <<>>
    /\ pagesFiles = PagesChoice
    /\ PipelineIdle
    /\ builtStatic = NotBuilt
    /\ ToolsIdle
    /\ AccessIdle
    /\ request \in {Request(m, u, a, f) : m \in Methods, u \in Urls,
                                          a \in AcceptHeaders(MaxAcceptEntries),
                                          f \in Formats}
    /\ markdownConfig \in MarkdownConfigs
    /\ indexablePaths \in PathSets
    /\ contentPaths \in PathSets
    /\ rendered = NotRendered
    /\ handled = FALSE
    /\ expressCalls = <<>>
    /\ callbacks = NoCallbacks

NextDelivery ==
    \/ CallMaybeRenderMarkdown
    \/ ExpressMiddleware

SpecDelivery == InitDelivery /\ [][NextDelivery]_vars

\* one request given to maybeRenderMarkdown, the callbacks observed
InitCallbacks ==
    /\ marketingFiles = <<>>
    /\ templates = <<>>
    /\ pagesFiles = PagesChoice
    /\ PipelineIdle
    /\ builtStatic = NotBuilt
    /\ ToolsIdle
    /\ AccessIdle
    /\ request \in {Request(<<"G","E","T">>, u, a, f) :
                       u \in Urls \cup AlternateUrls \cup NormalPaths,
                       a \in AcceptHeaders(1), f \in Formats}
    /\ markdownConfig \in MarkdownConfigs
    /\ indexablePaths \in CallbackPathSets
    /\ contentPaths \in CallbackPathSets
    /\ rendered = NotRendered
    /\ handled = FALSE
    /\ expressCalls = <<>>
    /\ callbacks = NoCallbacks

NextCallbacks ==
    \/ EnterMaybeRenderMarkdown
    \/ IsIndexableReturns
    \/ ResolveContentReturns

SpecCallbacks == InitCallbacks /\ [][NextCallbacks]_vars

\* successive runs of generateSeoArtifacts over a marketing directory whose
\* files declare dates
InitRouteDates ==
    /\ marketingFiles = <<>>
    /\ templates = <<>>
    /\ pagesFiles = PagesChoice
    /\ PipelineIdle
    /\ builtStatic = NotBuilt
    /\ AccessIdle
    /\ DeliveryIdle
    /\ LlmsIdle
    /\ MarkdownIdle
    /\ builtMarketing = NotBuiltMarketing
    /\ publicContent = NoPublicContent
    /\ publicMarkdown = NoPublicMarkdown
    /\ builtPages = NotBuiltPages
    /\ issues = NotValidated
    /\ \E files \in DatedFileLists, useGitDates \in BOOLEAN, git \in GitDateChoices,
          file \in RouteCacheChoices :
           routeDates = [NoRouteDates EXCEPT !.files = files, !.useGitDates = useGitDates,
                                             !.git = git, !.cacheFile = file]

NextRouteDates == GenerateMarketingRoutes

SpecRouteDates == InitRouteDates /\ [][NextRouteDates]_vars

\* generateSeoArtifacts from the point where its route list is complete
InitSitemap ==
    /\ marketingFiles = <<>>
    /\ templates = <<>>
    /\ pagesFiles = PagesChoice
    /\ generatedDir = <<>>
    /\ genConfig = [generateProgrammaticMarkdown |-> TRUE,
                    publicMarkdownFromProgrammatic |-> FALSE,
                    generatePublicMarkdown |-> TRUE]
    /\ cachedIndex = Index(<<>>, <<>>)
    /\ artifacts = NoFiles
    /\ publicFiles = {}
    /\ gpc = "sitemapPlan"
    /\ \E leading \in LeadingRoutes, n \in NumberedRouteCounts :
           run = [NoRun EXCEPT !.routes =
                     IF n = 0 THEN Listed(leading) ELSE ItemList(leading, 1, n)]
    /\ result = NoResult
    /\ runs = 1
    /\ built = IndexReturned(NoIndex)
    /\ builtStatic = NotBuilt
    /\ ToolsIdle
    /\ AccessIdle
    /\ DeliveryIdle

NextSitemap ==
    \/ GenSitemapPlan
    \/ GenSitemapWritePlain
    \/ GenSitemapWriteChunk
    \/ GenSitemapWriteIndex

SpecSitemap == InitSitemap /\ [][NextSitemap]_vars

\* buildLlmsTxt applied to a configuration and a list of article links
InitLlms ==
    /\ marketingFiles = <<>>
    /\ templates = <<>>
    /\ pagesFiles = PagesChoice
    /\ PipelineIdle
    /\ builtStatic = NotBuilt
    /\ AccessIdle
    /\ DeliveryIdle
    /\ llmsOptions \in {LlmsOptions(head, sections, placement, template, articleLinks) :
                           head \in LlmsHeadChoices,
                           sections \in LlmsSectionLists(MaxSections),
                           placement \in ArticlesPlacements,
                           template \in LlmsTemplates,
                           articleLinks \in ArticleLinkLists}
    /\ llmsText = NoText
    /\ MarkdownIdle
    /\ DirectIdle

NextLlms == CallBuildLlmsTxt

SpecLlms == InitLlms /\ [][NextLlms]_vars

\* the programmatic index of a fresh process, over a generated directory and
\* a template directory
InitIndex ==
    /\ marketingFiles = <<>>
    /\ templates \in TemplateChoices
    /\ pagesFiles = PagesChoice
    /\ generatedDir \in DistinctListings(GeneratedUniverse, MaxFiles)
    /\ genConfig = [generateProgrammaticMarkdown |-> TRUE,
                    publicMarkdownFromProgrammatic |-> FALSE,
                    generatePublicMarkdown |-> TRUE]
    /\ cachedIndex = NoIndex
    /\ artifacts = NoFiles
    /\ publicFiles = {}
    /\ gpc = "idle"
    /\ run = NoRun
    /\ result = NoResult
    /\ runs = 0
    /\ built = IndexReturned(NoIndex)
    /\ builtStatic = NotBuilt
    /\ ToolsIdle
    /\ AccessIdle
    /\ DeliveryIdle

NextIndex == CallGetProgrammaticPagesIndex

SpecIndex == InitIndex /\ [][NextIndex]_vars

\* a page content to render and parse back, or a content file to parse
InitMarkdown ==
    /\ marketingFiles = <<>>
    /\ templates = <<>>
    /\ pagesFiles = PagesChoice
    /\ PipelineIdle
    /\ builtStatic = NotBuilt
    /\ AccessIdle
    /\ DeliveryIdle
    /\ LlmsIdle
    /\ DirectIdle
    /\ \/ seoPage \in SeoPageContents /\ markdownFile = <<>>
       \/ seoPage = NoPage /\ markdownFile \in MarkdownFiles
    /\ parser = "none"
    /\ parsed = NotParsed

NextMarkdown ==
    \/ CallRenderSeoMarkdown
    \/ CallParseMarkdownContent
    \/ CallParseMarketingMarkdown

SpecMarkdown == InitMarkdown /\ [][NextMarkdown]_vars

\* the filesystem indexes and the programmatic index built over directories
\* whose files may name their path
InitPaths ==
    /\ \/ /\ pagesFiles \in DistinctListings(PagesPathUniverse, MaxFiles)
          /\ marketingFiles = <<>>
          /\ generatedDir = <<>>
          /\ templates = <<>>
       \/ /\ pagesFiles = <<>>
          /\ marketingFiles \in DistinctListings(MarketingPathUniverse, MaxFiles)
          /\ generatedDir = <<>>
          /\ templates = <<>>
       \/ /\ pagesFiles = <<>>
          /\ marketingFiles = <<>>
          /\ generatedDir \in DistinctListings(GeneratedUniverse, MaxFiles)
          /\ templates \in TemplateChoices
    /\ genConfig = [generateProgrammaticMarkdown |-> TRUE,
                    publicMarkdownFromProgrammatic |-> FALSE,
                    generatePublicMarkdown |-> TRUE]
    /\ cachedIndex = NoIndex
    /\ artifacts = NoFiles
    /\ publicFiles = {}
    /\ gpc = "idle"
    /\ run = NoRun
    /\ result = NoResult
    /\ runs = 0
    /\ built = IndexReturned(NoIndex)
    /\ builtStatic = NotBuilt
    /\ ToolsIdle
    /\ AccessIdle
    /\ DeliveryIdle

NextPaths ==
    \/ CallBuildSeoStaticContentIndex
    \/ CallBuildMarketingContentIndex
    \/ CallGetProgrammaticPagesIndex

SpecPaths == InitPaths /\ [][NextPaths]_vars

\* the public markdown stage of generateSeoArtifacts over small content
\* indexes, under both settings of its two toggles
InitPublicMarkdown ==
    /\ marketingFiles = <<>>
    /\ templates = <<>>
    /\ pagesFiles = PagesChoice
    /\ generatedDir = <<>>
    /\ genConfig \in {[generateProgrammaticMarkdown |-> TRUE,
                       publicMarkdownFromProgrammatic |-> p,
                       generatePublicMarkdown |-> g] : p \in BOOLEAN, g \in BOOLEAN}
    /\ cachedIndex = NoIndex
    /\ artifacts = NoFiles
    /\ publicFiles = {}
    /\ gpc = "idle"
    /\ run = NoRun
    /\ result = NoResult
    /\ runs = 0
    /\ built = IndexReturned(NoIndex)
    /\ builtStatic = NotBuilt
    /\ AccessIdle
    /\ DeliveryIdle
    /\ LlmsIdle
    /\ MarkdownIdle
    /\ builtMarketing = NotBuiltMarketing
    /\ builtPages = NotBuiltPages
    /\ issues = NotValidated
    /\ routeDates = NoRouteDates
    /\ publicContent \in PublicContents
    /\ publicMarkdown = PublicMarkdown("select", <<>>, <<>>, <<>>, NoFiles, 0)

NextPublicMarkdown ==
    \/ SelectMarkdownTargets
    \/ \E k \in 1..(3 * MaxPages) : k \in DOMAIN publicMarkdown.targets /\ MkdirDone(k)
    \/ \E k \in 1..(3 * MaxPages) : k \in DOMAIN publicMarkdown.targets /\ WriteFileDone(k)
    \/ WritesSettled

SpecPublicMarkdown == InitPublicMarkdown /\ [][NextPublicMarkdown]_vars

\* template expansion applied to one template with one row, over route
\* patterns and rows that make substitution leave gaps and patterns behind
InitRoutes ==
    /\ marketingFiles = <<>>
    /\ templates \in RouteTemplates
    /\ pagesFiles = PagesChoice
    /\ PipelineIdle
    /\ builtStatic = NotBuilt
    /\ ToolsIdle
    /\ AccessIdle
    /\ DeliveryIdle

NextRoutes == CallBuildProgrammaticIndex

SpecRoutes == InitRoutes /\ [][NextRoutes]_vars

\* the programmatic pages built from templates with content and linking
\* settings, and validated
InitPages ==
    /\ marketingFiles = <<>>
    /\ templates \in ContentTemplates
    /\ pagesFiles = PagesChoice
    /\ PipelineIdle
    /\ builtStatic = NotBuilt
    /\ ToolsIdle
    /\ AccessIdle
    /\ DeliveryIdle

NextPages ==
    \/ CallBuildProgrammaticPagesFromTemplates
    \/ CallValidateProgrammaticPages

SpecPages == InitPages /\ [][NextPages]_vars

\* a content file made of depth-2 sections, given to either parser
InitSections ==
    /\ marketingFiles = <<>>
    /\ templates = <<>>
    /\ pagesFiles = PagesChoice
    /\ PipelineIdle
    /\ builtStatic = NotBuilt
    /\ AccessIdle
    /\ DeliveryIdle
    /\ LlmsIdle
    /\ DirectIdle
    /\ seoPage = NoPage
    /\ markdownFile \in SectionFiles
    /\ parser = "none"
    /\ parsed = NotParsed

NextSections ==
    \/ CallParseMarkdownContent
    \/ CallParseMarketingMarkdown

SpecSections == InitSections /\ [][NextSections]_vars

-----------------------------------------------------------------------------
(* Properties *)

\* the scanned marketing files that derive a route
AcceptedMarketingFiles(entries) ==
    LET derives(f) == marketingBuildRoutePathFromFile(f.name) # <<>>
    IN  SelectSeq(scanMarketingMarkdown(entries), derives)

MarketingRouteOf(f) == marketingBuildRoutePathFromFile(f.name)

MarketingCollision(accepted) ==
    \E i, j \in DOMAIN accepted :
        i < j /\ MarketingRouteOf(accepted[i]) = MarketingRouteOf(accepted[j])

C1_Outcome(accepted, outcome) ==
    IF MarketingCollision(accepted)
    THEN /\ outcome.threw
         /\ outcome.records = <<>>
         /\ outcome.error.kind = "DuplicateMarketingRoute"
         /\ \E i, j \in DOMAIN accepted :
                /\ i < j
                /\ MarketingRouteOf(accepted[i]) = outcome.error.path
                /\ MarketingRouteOf(accepted[j]) = outcome.error.path
                /\ outcome.error.files = <<accepted[i].name, accepted[j].name>>
    ELSE /\ ~outcome.threw
         /\ Len(outcome.records) = Len(accepted)
         /\ \A k \in DOMAIN accepted :
                Cardinality({r \in DOMAIN outcome.records :
                    /\ outcome.records[r].sourceFile =
                           toPosixPath(MarketingSourceFile(accepted[k].name))
                    /\ outcome.records[r].path = MarketingRouteOf(accepted[k])}) = 1

\* C1: when two marketing files derive the same route path the index build
\* throws an error naming that path and both files and returns no records,
\* and every generateSeoArtifacts invocation has then aborted with that
\* error with no artifact written; when no two files collide the build
\* returns exactly one record per accepted file.
C1_Theorem ==
    /\ C1_Outcome(AcceptedMarketingFiles(marketingFiles),
                  buildMarketingContentIndexFromFilesystem(marketingFiles))
    /\ MarketingCollision(AcceptedMarketingFiles(marketingFiles)) =>
           /\ artifacts = NoFiles
           /\ publicFiles = {}
           /\ run.written = <<>>
           /\ gpc = "idle"
           /\ runs > 0 =>
                  /\ result.status = "threw"
                  /\ result.error.kind = "DuplicateMarketingRoute"
                  /\ result.written = <<>>

\* an invocation over two colliding marketing files has aborted
C1_Witness ==
    /\ runs > 0
    /\ gpc = "idle"
    /\ result.status = "threw"
    /\ result.error.kind = "DuplicateMarketingRoute"
    /\ Len(AcceptedMarketingFiles(marketingFiles)) = 2
    /\ artifacts = NoFiles

ResolvedPathOf(row) == resolveRoute(row.template.route, buildTokenMap(row.record))

\* the [template, record] pairs that resolve to a route
ResolvedRows(tpls) ==
    LET resolves(row) == ResolvedPathOf(row) # <<>>
    IN  SelectSeq(TemplateRows(tpls), resolves)

ProgrammaticCollision(rows) ==
    \E i, j \in DOMAIN rows : i < j /\ ResolvedPathOf(rows[i]) = ResolvedPathOf(rows[j])

C2_Outcome(rows, outcome) ==
    IF ProgrammaticCollision(rows)
    THEN /\ outcome.threw
         /\ outcome.index = NoIndex
         /\ outcome.error.kind = "DuplicateProgrammaticPath"
         /\ \E i, j \in DOMAIN rows :
                /\ i < j
                /\ ResolvedPathOf(rows[i]) = outcome.error.path
                /\ ResolvedPathOf(rows[j]) = outcome.error.path
    ELSE /\ ~outcome.threw
         /\ Len(outcome.index.pages) = Len(rows)
         /\ \A i, j \in DOMAIN outcome.index.pages :
                outcome.index.pages[i].path = outcome.index.pages[j].path => i = j
         /\ Len(outcome.index.pageMap) = Len(outcome.index.pages)
         /\ \A k \in DOMAIN outcome.index.pages :
                /\ Cardinality({m \in DOMAIN outcome.index.pageMap :
                       outcome.index.pageMap[m].key = outcome.index.pages[k].path}) = 1
                /\ MapGet(outcome.index.pageMap, outcome.index.pages[k].path)
                       = outcome.index.pages[k]

\* C2: once the template expansion has been applied to the template
\* directory, if two dataset rows (of one template or of two) resolve to the
\* same route path it threw an error naming that path and returned no
\* index; otherwise the pages of the returned index have pairwise distinct
\* paths and pageMap maps each page's path to exactly that page.
C2_Theorem ==
    (built.threw \/ built.index.set) => C2_Outcome(ResolvedRows(templates), built)

\* the expansion has thrown on rows of two different templates
C2_Witness ==
    /\ built.threw
    /\ built.error.kind = "DuplicateProgrammaticPath"
    /\ \E i, j \in DOMAIN templates :
           /\ i < j
           /\ \E a \in DOMAIN templates[i].records, b \in DOMAIN templates[j].records :
                  ResolvedPathOf([template |-> templates[i], record |-> templates[i].records[a]])
                      = built.error.path
                  /\ ResolvedPathOf([template |-> templates[j],
                                     record |-> templates[j].records[b]])
                      = built.error.path

\* the index a rebuild from the generated directory and the templates gives
RebuiltRoutes(rebuilt) == IF rebuilt.threw THEN <<>> ELSE ProgrammaticRoutes(rebuilt.index)

\* C4: right after an invocation has computed its route list, its
\* programmatic routes are those of an index rebuilt from the generated
\* directory and the templates as they are during this invocation.
C4_Counterexample ==
    gpc = "sitemapPlan" =>
        run.programmaticRoutes
            = RebuiltRoutes(getIndex(NoIndex, TRUE, generatedDir, templates))

\* C3: once the static index of a pages directory has been built, no two
\* of its records share a path (the build never throws in the code, so a
\* collision is not reported either).
C3_Counterexample ==
    builtStatic.built =>
        \A i, j \in DOMAIN builtStatic.records :
            builtStatic.records[i].path = builtStatic.records[j].path => i = j

\* what a call's outcome is compared with: thrown or not, and the value
Outcome(threw, value) == [threw |-> threw, value |-> value]

RebuiltRoutesOutcome(fromFs) ==
    IF fromFs.threw THEN Outcome(TRUE, <<>>)
    ELSE Outcome(FALSE, MarketingRouteProjection(fromFs.records))

RebuiltContentOutcome(fromFs) ==
    IF fromFs.threw THEN Outcome(TRUE, <<>>) ELSE Outcome(FALSE, fromFs.records)

\* the filesystem rebuild of the accessor, from the directories as they are
FilesystemRebuild ==
    IF accessor = "getSeoContentIndex"
    THEN Outcome(FALSE, buildSeoContentIndexFromFilesystem(pagesFiles, generatedDir))
    ELSE IF accessor = "getMarketingRoutes"
    THEN RebuiltRoutesOutcome(buildMarketingRoutesFromFilesystem(marketingFiles))
    ELSE RebuiltContentOutcome(buildMarketingContentIndexFromFilesystem(marketingFiles))

\* the step is an accessor call; lastCall' describes it
IsAccessorCall == calls' = calls + 1

CallOutcome == Outcome(lastCall'.threw, lastCall'.value)

\* the call computes: it is the first call that returns or it refreshes
IsComputingCall == IsAccessorCall /\ (~computed.has \/ lastCall'.refresh)

SourceInEffect ==
    IF lastCall'.source = "default"
    THEN (IF nodeEnv = "production" THEN "auto" ELSE "filesystem")
    ELSE lastCall'.source

\* what a computing call gives for an effective source, from the cache file
\* and the directories as they are
ComputedFrom(source) ==
    IF source = "filesystem" THEN FilesystemRebuild
    ELSE IF cacheFile.kind = "array" THEN Outcome(FALSE, cacheFile.data)
    ELSE IF source = "auto" THEN FilesystemRebuild
    ELSE Outcome(FALSE, <<>>)

\* C5: an accessor call without refresh made after a computing call
\* returns exactly the value that most recent computing call returned,
\* whatever has changed since; a first or refreshing call computes from the
\* current state: from the filesystem when the effective source is
\* 'filesystem', from the JSON cache file first when it is 'auto' or
\* 'file', the effective source being the source option if given and
\* otherwise 'auto' in production mode and 'filesystem' in any other.
C5_Theorem ==
    [][IsAccessorCall =>
          IF computed.has /\ ~lastCall'.refresh
          THEN CallOutcome = Outcome(FALSE, computed.value)
          ELSE CallOutcome = ComputedFrom(SourceInEffect)]_vars

\* C5 as stated: every computing call reads the cache file first in
\* production mode and the filesystem otherwise.
C5_Counterexample ==
    [][IsAccessorCall =>
          IF computed.has /\ ~lastCall'.refresh
          THEN CallOutcome = Outcome(FALSE, computed.value)
          ELSE CallOutcome = IF nodeEnv = "production" /\ cacheFile.kind = "array"
                             THEN Outcome(FALSE, cacheFile.data)
                             ELSE FilesystemRebuild]_vars

\* a call without refresh has returned the memoized value although a
\* rebuild from the current directories gives another one
C5_Witness ==
    /\ calls >= 2
    /\ ~lastCall.refresh
    /\ ~lastCall.threw
    /\ computed.has
    /\ lastCall.value = computed.value
    /\ ~FilesystemRebuild.threw
    /\ FilesystemRebuild.value # lastCall.value
    /\ cacheFile.kind # "array"

\* C6: a computing call whose effective source reads the cache file and
\* finds it missing, unreadable, not valid JSON or not an array does not
\* fail because of the file: with effective source 'auto' its outcome is
\* the outcome of the filesystem rebuild (the rebuilt list, or the rebuild's
\* duplicate-route error), with source 'file' it returns the empty list.
C6_Theorem ==
    [][IsComputingCall /\ SourceInEffect \in {"auto", "file"} /\ cacheFile.kind # "array" =>
          IF SourceInEffect = "auto"
          THEN CallOutcome = FilesystemRebuild
          ELSE CallOutcome = Outcome(FALSE, <<>>)]_vars

\* C6 as stated: such a call never throws and returns the result of the
\* filesystem rebuild.
C6_Counterexample ==
    [][IsComputingCall /\ SourceInEffect \in {"auto", "file"} /\ cacheFile.kind # "array" =>
          /\ ~lastCall'.threw
          /\ ~FilesystemRebuild.threw
          /\ lastCall'.value = FilesystemRebuild.value]_vars

\* in production mode a first call has found invalid JSON in the cache file
\* and returned the non-empty filesystem rebuild
C6_Witness ==
    /\ calls = 1
    /\ nodeEnv = "production"
    /\ lastCall.source = "default"
    /\ cacheFile.kind = "invalidJson"
    /\ ~lastCall.threw
    /\ lastCall.value # <<>>
    /\ Outcome(FALSE, lastCall.value) = FilesystemRebuild


\* the media type of an Accept entry: what precedes its parameters, trimmed
MediaTypeOf(entry) == Trim(Split(entry, ";")[1])

AcceptNamesTextMarkdown(accept) ==
    \E k \in DOMAIN Split(accept, ",") : MediaTypeOf(Split(accept, ",")[k]) = TextMarkdown

\* C7: the negotiator's decision is true exactly when the normalized path
\* ends with the configured extension, or Accept negotiation is enabled and
\* one comma-separated entry of the Accept header is text/markdown, or
\* query-param negotiation is enabled and the query has format=md.
C7_Counterexample ==
    rendered.called =>
        (rendered.wants <=>
            \/ EndsWith(normalizePath(request.url), markdownConfig.extension)
            \/ markdownConfig.enableAcceptNegotiation /\ AcceptNamesTextMarkdown(request.accept)
            \/ markdownConfig.enableQueryParam /\ request.format = FormatMd)

RequestPath == normalizePath(request.url)

\* the request path with the extension cut off when present
StrippedPath ==
    IF EndsWith(RequestPath, markdownConfig.extension)
    THEN SubSeq(RequestPath, 1, Len(RequestPath) - Len(markdownConfig.extension))
    ELSE RequestPath

\* the target of the request: the stripped path, and the root for /index.md
TargetPath ==
    IF EndsWith(RequestPath, markdownConfig.extension) /\ StrippedPath \in {<<>>, SlashIndex}
    THEN <<"/">>
    ELSE StrippedPath

RespondsFor(target) ==
    /\ ~rendered.response.null <=>
           (rendered.wants /\ target \in indexablePaths /\ target \in contentPaths)
    /\ ~rendered.response.null =>
           /\ rendered.response.status = 200
           /\ rendered.response.target = target
           /\ Len(rendered.response.headers) = 2
           /\ \E h \in DOMAIN rendered.response.headers :
                  rendered.response.headers[h] =
                      [name |-> "Content-Type", value |-> "text/markdown; charset=utf-8"]
           /\ \E h \in DOMAIN rendered.response.headers :
                  rendered.response.headers[h] = [name |-> "Vary", value |-> "Accept"]

\* C8: maybeRenderMarkdown has returned a response exactly when the request
\* wants markdown and the target is indexable and resolves to content, the
\* target being the normalized request path with the extension stripped
\* when present and the root path when that leaves /index; a response has
\* status 200, Content-Type text/markdown; charset=utf-8 and Vary Accept,
\* and renders the target's content; otherwise null is returned.
C8_Theorem == rendered.called => RespondsFor(TargetPath)

\* C8 as stated: the target is the normalized path with the extension
\* stripped.
C8_Counterexample == rendered.called => RespondsFor(StrippedPath)

\* /index.md has been answered with the content of the root path
C8_Witness ==
    /\ rendered.called
    /\ ~rendered.response.null
    /\ RequestPath = SlashIndex \o markdownConfig.extension
    /\ rendered.response.target = <<"/">>
    /\ rendered.response.status = 200

CountOf(log, call) == Cardinality({k \in DOMAIN log : log[k] = call})

NegotiatorDefers ==
    \/ ~isMarkdownRequest(markdownConfig, request)
    \/ TargetPath \notin indexablePaths
    \/ TargetPath \notin contentPaths

\* C9: once the middleware has handled the request, either next() was
\* called once and nothing was sent, or next() was not called and the
\* response was sent: the headers set, then the status, then send; next()
\* was called exactly when the method is neither GET nor HEAD or the
\* negotiator defers.
C9_Theorem ==
    handled =>
        IF ToUpperCase(request.method) \notin {<<"G","E","T">>, <<"H","E","A","D">>}
               \/ NegotiatorDefers
        THEN expressCalls = <<"next">>
        ELSE /\ CountOf(expressCalls, "next") = 0
             /\ expressCalls = <<"setHeader Content-Type: text/markdown; charset=utf-8",
                                 "setHeader Vary: Accept", "status 200", "send">>

\* a HEAD request in lower case has been answered with markdown
C9_Witness ==
    /\ handled
    /\ request.method = <<"h","e","a","d">>
    /\ Len(expressCalls) = 4
    /\ expressCalls[4] = "send"

\* the URL entries of the invocation's indexable routes: those of the
\* listed routes that are indexable, then those of the numbered routes
IndexableListed == SelectSeq(run.routes.explicit, IsIndexable)

UrlEntries ==
    ItemList([k \in DOMAIN IndexableListed |-> [loc |-> IndexableListed[k].path]],
             run.routes.genFrom, run.routes.genTo)

CeilDiv(n, d) == (n + d - 1) \div d

\* the item at position p of a list: a listed item, or the number of a
\* numbered one
ItemAt(list, p) ==
    IF p <= Len(list.explicit)
    THEN [number |-> 0, listed |-> <<list.explicit[p]>>]
    ELSE [number |-> list.genFrom + (p - Len(list.explicit)) - 1, listed |-> <<>>]

\* the chunks, one after the other, are the list: position p of the list is
\* position ((p - 1) mod 45000) + 1 of chunk ((p - 1) div 45000) + 1
ChunkedInOrder(entries, chunks) ==
    /\ Len(chunks) = CeilDiv(ListLen(entries), MAX_URLS_PER_SITEMAP)
    /\ \A k \in DOMAIN chunks :
           /\ ListLen(chunks[k]) >= 1
           /\ ListLen(chunks[k]) <= MAX_URLS_PER_SITEMAP
           /\ k < Len(chunks) => ListLen(chunks[k]) = MAX_URLS_PER_SITEMAP
           /\ NumberedCount(chunks[k]) = 0 => chunks[k] = Listed(chunks[k].explicit)
    /\ \A p \in 1..ListLen(entries) :
           ItemAt(chunks[((p - 1) \div MAX_URLS_PER_SITEMAP) + 1],
                  ((p - 1) % MAX_URLS_PER_SITEMAP) + 1)
               = ItemAt(entries, p)

ChunkName(k) == "sitemap-" \o ToString(k) \o ".xml"

SitemapFilesWritten(entries, chunks) ==
    IF Len(chunks) <= 1
    THEN /\ DOMAIN artifacts = {"sitemap.xml"}
         /\ run.written = <<"sitemap.xml">>
         /\ artifacts["sitemap.xml"] = [kind |-> "urlset", entries |-> entries]
    ELSE /\ DOMAIN artifacts = {"sitemap.xml"} \cup {ChunkName(k) : k \in DOMAIN chunks}
         /\ run.written = [k \in DOMAIN chunks |-> ChunkName(k)] \o <<"sitemap.xml">>
         /\ \A k \in DOMAIN chunks :
                artifacts[ChunkName(k)] = [kind |-> "urlset", entries |-> chunks[k]]
         /\ artifacts["sitemap.xml"] =
                [kind |-> "sitemapindex", entries |-> [k \in DOMAIN chunks |-> ChunkName(k)]]

\* C10: the indexable URL entries are split in order into ceil(n/45000)
\* consecutive chunks, all but the last of 45000 entries, whose
\* concatenation is the list; once the sitemap is written, with at most one
\* chunk sitemap.xml alone was written, as a plain sitemap of all entries,
\* and with k >= 2 chunks sitemap-1.xml .. sitemap-k.xml were written, then
\* a sitemap index at sitemap.xml listing these k files.
C10_Theorem ==
    /\ gpc \in {"sitemapWrite", "robots"} => ChunkedInOrder(UrlEntries, run.sitemapChunks)
    /\ gpc = "robots" => SitemapFilesWritten(UrlEntries, run.sitemapChunks)

\* 90,001 indexable routes have been written as 45000/45000/1 and an index
C10_Witness ==
    /\ gpc = "robots"
    /\ ListLen(UrlEntries) = 2 * MAX_URLS_PER_SITEMAP + 1
    /\ Len(run.sitemapChunks) = 3
    /\ ListLen(run.sitemapChunks[1]) = MAX_URLS_PER_SITEMAP
    /\ ListLen(run.sitemapChunks[2]) = MAX_URLS_PER_SITEMAP
    /\ ListLen(run.sitemapChunks[3]) = 1
    /\ artifacts["sitemap.xml"].kind = "sitemapindex"

\* the routes generateSeoArtifacts concatenates: the configured static
\* routes, the marketing routes, the programmatic routes
ConcatenatedRoutes(marketing, programmatic) == StaticRoutes \o marketing \o programmatic

\* the marketing routes of the marketing directory
MarketingRoutesOf(entries) ==
    LET fromFs == buildMarketingRoutesFromFilesystem(entries)
    IN  [k \in DOMAIN fromFs.records |->
            Route(fromFs.records[k].path, fromFs.records[k].indexable)]

\* the position of the earliest route of a path in a list that holds one
FirstIndexOf(input, path) == SetMin({k \in DOMAIN input : input[k].path = path})

\* output is input with duplicates by path removed, the first occurrence kept
DedupedKeepingFirst(input, output) ==
    /\ \A i, j \in DOMAIN output : output[i].path = output[j].path => i = j
    /\ \A k \in DOMAIN input :
           Cardinality({i \in DOMAIN output : output[i].path = input[k].path}) = 1
    /\ \A i \in DOMAIN output :
           /\ \E k \in DOMAIN input : input[k].path = output[i].path
           /\ output[i] = input[FirstIndexOf(input, output[i].path)]
    /\ \A i, j \in DOMAIN output :
           i < j => FirstIndexOf(input, output[i].path) < FirstIndexOf(input, output[j].path)

\* C11: the route list of an invocation, and the routes it returns, are the
\* concatenation of static, marketing and programmatic routes with
\* duplicates by path removed: no two routes share a path, every input path
\* appears exactly once, the route kept for a path is the earliest of the
\* concatenation, and the kept routes are in the concatenation's order.
C11_Theorem ==
    /\ gpc \in {"sitemapPlan", "sitemapWrite", "robots", "publicMarkdown", "validate"} =>
           /\ run.routes = Listed(run.routes.explicit)
           /\ DedupedKeepingFirst(ConcatenatedRoutes(run.marketingRoutes,
                                                     run.programmaticRoutes),
                                  run.routes.explicit)
    /\ result.status = "returned" =>
           /\ result.routes = Listed(result.routes.explicit)
           /\ DedupedKeepingFirst(ConcatenatedRoutes(MarketingRoutesOf(marketingFiles),
                                                     result.programmaticRoutes),
                                  result.routes.explicit)

\* an invocation has returned routes where a marketing route was dropped for
\* the static route of the same path, which differs from it
C11_Witness ==
    /\ result.status = "returned"
    /\ \E k \in DOMAIN MarketingRoutesOf(marketingFiles), i \in DOMAIN result.routes.explicit :
           /\ MarketingRoutesOf(marketingFiles)[k].path = result.routes.explicit[i].path
           /\ MarketingRoutesOf(marketingFiles)[k] # result.routes.explicit[i]
    /\ Len(result.programmaticRoutes) > 0

\* the 1-based position of the first section whose lower-cased heading
\* contains the keyword, 0 when there is none
FirstSectionWith(sections, keyword) ==
    IF \E k \in DOMAIN sections : Includes(ToLowerCase(sections[k].heading), keyword)
    THEN CHOOSE k \in DOMAIN sections :
            /\ Includes(ToLowerCase(sections[k].heading), keyword)
            /\ \A j \in 1..(k - 1) : ~Includes(ToLowerCase(sections[j].heading), keyword)
    ELSE 0

AfterFirstOrLast(sections, keyword) ==
    IF FirstSectionWith(sections, keyword) = 0 THEN Len(sections)
    ELSE FirstSectionWith(sections, keyword)

\* how many of the configured sections come before the Articles block
SectionsBeforeArticles(sections, placement) ==
    CASE placement = "after-docs" -> AfterFirstOrLast(sections, <<"d","o","c">>)
      [] placement = "after-product" ->
             AfterFirstOrLast(sections, <<"p","r","o","d","u","c","t">>)
      [] placement = "after-company" ->
             AfterFirstOrLast(sections, <<"c","o","m","p","a","n","y">>)
      [] placement = "before-legal" ->
             (IF FirstSectionWith(sections, <<"l","e","g","a","l">>) = 0 THEN Len(sections)
              ELSE FirstSectionWith(sections, <<"l","e","g","a","l">>) - 1)
      [] placement = "end" -> Len(sections)

SectionLinesOf(sections, from, to) ==
    Flatten([k \in 1..(to - from + 1) |-> SectionBlock(sections[from + k - 1]).lines])

LlmsHeadOf(config) ==
    LlmsHead(LlmsTitle(config), OrElse(config.llms.summary, config.siteSummary),
             OrElse(config.llms.contact, config.contact),
             OrElse(config.llms.capabilities, config.capabilities))

\* the text with the Articles block after the first `before` sections
LlmsTextWithArticlesAfter(options, before) ==
    TrimText(LlmsHeadOf(options.config)
                 \o SectionLinesOf(options.config.llms.sections, 1, before)
                 \o ArticlesLines(options.articleLinks)
                 \o SectionLinesOf(options.config.llms.sections, before + 1,
                                   Len(options.config.llms.sections))
                 \o <<defaultFooter>>)

PlacedArticles ==
    /\ llmsText.built
    /\ llmsOptions.config.llms.template = <<>>
    /\ llmsOptions.config.llms.articlesPlacement
           \in {"after-docs", "after-product", "after-company", "before-legal", "end"}

\* C12: in the llms.txt generated without a template, for after-docs /
\* after-product / after-company the Articles block comes right after the
\* first configured section whose lower-cased heading contains doc /
\* product / company, for before-legal right before the first one whose
\* heading contains legal, in both cases after all sections when there is
\* none, and for end after all sections; the configured sections are in
\* their configured order.
C12_Theorem ==
    PlacedArticles =>
        llmsText.lines =
            LlmsTextWithArticlesAfter(
                llmsOptions,
                SectionsBeforeArticles(llmsOptions.config.llms.sections,
                                       llmsOptions.config.llms.articlesPlacement))

ArticlesHeading == H2 \o <<"A","r","t","i","c","l","e","s">>

LegalHeading == H2 \o <<"L","e","g","a","l">>

\* with before-legal and a Legal section after two others, the Articles
\* block ends right before the Legal heading
C12_Witness ==
    /\ PlacedArticles
    /\ llmsOptions.config.llms.articlesPlacement = "before-legal"
    /\ Len(llmsOptions.config.llms.sections) = 3
    /\ llmsOptions.articleLinks # <<>>
    /\ \E a, l \in DOMAIN llmsText.lines :
           /\ llmsText.lines[a] = ArticlesHeading
           /\ llmsText.lines[l] = LegalHeading
           /\ l = a + Len(ArticlesLines(llmsOptions.articleLinks))
           /\ a > 3

\* C13: with placement omit the generated llms.txt holds no `## Articles`
\* heading and no footer note, whatever the configured sections are.
C13_Counterexample ==
    (llmsText.built /\ llmsOptions.config.llms.articlesPlacement = "omit") =>
        \A k \in DOMAIN llmsText.lines :
            /\ llmsText.lines[k] # ArticlesHeading
            /\ llmsText.lines[k] # defaultFooter

\* the generated files that yield a page: markdown files outside skipped
\* entries
YieldsGeneratedPage(f) ==
    /\ EndsWith(f.name, <<".","m","d">>)
    /\ \A k \in DOMAIN Split(f.name, "/") :
           ~StartsWith(Split(f.name, "/")[k], <<"_">>)
           /\ ~StartsWith(Split(f.name, "/")[k], <<".">>)

GeneratedPageFiles == SelectSeq(generatedDir, YieldsGeneratedPage)

IndexBuilt == built.threw \/ built.index.set

\* C14: the index a fresh getIndex gives: when the generated directory
\* yields at least one page, it is returned (whatever the templates are,
\* colliding ones included) and holds exactly the pages of the generated
\* files, none from the templates; when it yields none, the outcome is
\* exactly that of the template expansion.
C14_Theorem ==
    IndexBuilt =>
        IF GeneratedPageFiles # <<>>
        THEN /\ ~built.threw
             /\ built.index = buildProgrammaticPagesFromMarkdown(generatedDir)
             /\ \A k \in DOMAIN built.index.pages :
                    /\ built.index.pages[k].templateId = "generated"
                    /\ \E f \in DOMAIN GeneratedPageFiles :
                           GeneratedRoutePath(GeneratedPageFiles[f]) = built.index.pages[k].path
             /\ \A f \in DOMAIN GeneratedPageFiles :
                    \E k \in DOMAIN built.index.pages :
                        built.index.pages[k].path = GeneratedRoutePath(GeneratedPageFiles[f])
        ELSE /\ built = buildProgrammaticIndex(templates)
             /\ \A k \in DOMAIN built.index.pages :
                    built.index.pages[k].templateId # "generated"

\* a generated page was returned although the templates collide
C14_Witness ==
    /\ IndexBuilt
    /\ GeneratedPageFiles # <<>>
    /\ buildProgrammaticIndex(templates).threw
    /\ ~built.threw
    /\ Len(built.index.pages) = Len(GeneratedPageFiles)

\* C15: a page parsed from a file without `heading` metadata has its title
\* as its heading.
C15_Counterexample ==
    (parser # "none" /\ ~HasKey(parsed.meta, <<"h","e","a","d","i","n","g">>)) => parsed.heading = parsed.title

\* C16: parsing a rendered page content gives back its title, description,
\* steps, FAQs, CTA and sections.
C16_Counterexample ==
    (seoPage.set /\ parser = "parseMarkdownContent") =>
        /\ parsed.title = seoPage.title
        /\ parsed.description = seoPage.description
        /\ parsed.steps = seoPage.steps
        /\ parsed.faqs = seoPage.faqs
        /\ parsed.cta = seoPage.cta
        /\ parsed.extraSections = seoPage.sections

\* the path a file asks for: its `path` metadata when not empty, else the
\* path derived from its location
PathAskedFor(f, derived) == IF Trim(f.metaPath) # <<>> THEN Trim(f.metaPath) ELSE derived

\* C17: every record of the static registry and of the marketing index has
\* the `path` metadata of its file as its path when that is not empty, and
\* the path derived from the file's location otherwise.
C17_Counterexample ==
    /\ \A k \in DOMAIN builtStatic.records :
           \E f \in Range(pagesFiles) :
               /\ builtStatic.records[k].sourceFile = f.name
               /\ builtStatic.records[k].path
                      = PathAskedFor(f, buildRoutePathFromFile(toPosixPath(f.name)))
    /\ \A k \in DOMAIN builtMarketing.outcome.records :
           \E f \in Range(marketingFiles) :
               /\ builtMarketing.outcome.records[k].sourceFile
                      = toPosixPath(MarketingSourceFile(f.name))
               /\ builtMarketing.outcome.records[k].path
                      = PathAskedFor(f, marketingBuildRoutePathFromFile(f.name))

\* a route path in normal form: a leading slash, and no trailing slash
\* unless it is the root
NormalForm(path) ==
    /\ path # <<>>
    /\ path[1] = "/"
    /\ path[Len(path)] = "/" => path = <<"/">>

\* C18: every record of the static registry, of the marketing index and of
\* the programmatic index (expanded or read from generated markdown) has a
\* path in normal form.
C18_Counterexample ==
    /\ \A k \in DOMAIN builtStatic.records : NormalForm(builtStatic.records[k].path)
    /\ \A k \in DOMAIN builtMarketing.outcome.records :
           NormalForm(builtMarketing.outcome.records[k].path)
    /\ \A k \in DOMAIN built.index.pages : NormalForm(built.index.pages[k].path)


\* ---- the public markdown targets

PublicPaths ==
    {publicContent.marketingContentWithDates[k].page.path :
        k \in DOMAIN publicContent.marketingContentWithDates}
    \cup {publicContent.staticContent[k].path : k \in DOMAIN publicContent.staticContent}
    \cup {publicContent.seoContentIndex[k].path : k \in DOMAIN publicContent.seoContentIndex}

\* the marketing entries of a path that are indexable, do not opt out of
\* llms and have a body that is not blank
QualifyingMarketing(pathValue) ==
    {k \in DOMAIN publicContent.marketingContentWithDates :
        /\ publicContent.marketingContentWithDates[k].page.path = pathValue
        /\ IsListed(publicContent.marketingContentWithDates[k].page)
        /\ Trim(publicContent.marketingContentWithDates[k].markdown) # <<>>}

\* the entries of a path in an index that are indexable and do not opt out
Qualifying(entries, pathValue) ==
    {k \in DOMAIN entries : entries[k].path = pathValue /\ IsListed(entries[k])}

\* the sources that offer a page for the path, and the page of the first
\* of them in the order marketing, static, content index
IsOffered(pathValue) ==
    \/ QualifyingMarketing(pathValue) # {}
    \/ Qualifying(publicContent.staticContent, pathValue) # {}
    \/ /\ genConfig.publicMarkdownFromProgrammatic
       /\ Qualifying(publicContent.seoContentIndex, pathValue) # {}

FirstOffer(pathValue) ==
    IF QualifyingMarketing(pathValue) # {}
    THEN publicContent.marketingContentWithDates[SetMax(QualifyingMarketing(pathValue))].page
    ELSE IF Qualifying(publicContent.staticContent, pathValue) # {}
    THEN publicContent.staticContent[SetMin(Qualifying(publicContent.staticContent, pathValue))]
    ELSE publicContent.seoContentIndex[SetMin(Qualifying(publicContent.seoContentIndex, pathValue))]

TargetsOf(pathValue) ==
    {k \in DOMAIN publicMarkdown.targets : publicMarkdown.targets[k].content.path = pathValue}

TargetsSelected == publicMarkdown.stage \in {"writing", "done"}

\* C19: once the targets are selected, each path has one target exactly when
\* a source offers the path, that target's content is the qualifying
\* marketing page, else the static page, else (only with
\* publicMarkdownFromProgrammatic) the content-index page, and every target
\* is indexable and does not opt out of llms
C19_Theorem ==
    TargetsSelected =>
        /\ \A pathValue \in PublicPaths :
              IF IsOffered(pathValue)
              THEN /\ Cardinality(TargetsOf(pathValue)) = 1
                   /\ \A k \in TargetsOf(pathValue) :
                         publicMarkdown.targets[k].content = FirstOffer(pathValue)
              ELSE TargetsOf(pathValue) = {}
        /\ \A k \in DOMAIN publicMarkdown.targets :
              /\ publicMarkdown.targets[k].content.path \in PublicPaths
              /\ IsListed(publicMarkdown.targets[k].content)

\* /about is offered by marketing, static and generated pages and goes to
\* marketing; /blog has a marketing page with a blank body and goes to the
\* static page; /guides/a comes from the content index
C19_Witness ==
    /\ TargetsSelected
    /\ genConfig.publicMarkdownFromProgrammatic
    /\ QualifyingMarketing(<<"/","a","b","o","u","t">>) # {}
    /\ Qualifying(publicContent.staticContent, <<"/","a","b","o","u","t">>) # {}
    /\ \E k \in TargetsOf(<<"/","a","b","o","u","t">>) :
          publicMarkdown.targets[k].content.title = <<"A","b","o","u","t"," ","u","s">>
    /\ \E k \in DOMAIN publicContent.marketingContentWithDates :
          publicContent.marketingContentWithDates[k].page.path = <<"/","b","l","o","g">>
    /\ \E k \in TargetsOf(<<"/","b","l","o","g">>) :
          publicMarkdown.targets[k].content.title = <<"B","l","o","g"," ","(","p","a","g","e",")">>
    /\ \E k \in TargetsOf(<<"/","g","u","i","d","e","s","/","a">>) :
          publicMarkdown.targets[k].content.title = <<"G","u","i","d","e"," ","a">>


\* ---- the public markdown writes

OutputPathOf(k) == toMarkdownOutputPath(publicMarkdown.targets[k].content.path)

\* whether the callback of a target writes its file
WritesFile(target) == ~(target.allowEmpty = "false" /\ target.content.title = <<>>)

\* the files after the callbacks have completed one after another in the
\* order of the targets
RECURSIVE WrittenInOrder(_, _)
WrittenInOrder(targets, files) ==
    IF targets = <<>> THEN files
    ELSE WrittenInOrder(Tail(targets),
                        IF WritesFile(Head(targets))
                        THEN WriteFile(files, toMarkdownOutputPath(Head(targets).content.path),
                                       renderSeoMarkdown(Head(targets).content))
                        ELSE files)

WritesAwaited == publicMarkdown.stage = "done" /\ genConfig.generatePublicMarkdown

\* C20: once the writes have been awaited, whatever the order they
\* completed in, the files are those of the completion in target order, the
\* count is the number of targets that write a file, and no two targets
\* have the same output file
C20_Counterexample ==
    WritesAwaited =>
        /\ publicMarkdown.files = WrittenInOrder(publicMarkdown.targets, NoFiles)
        /\ publicMarkdown.markdownOutputCount =
               Cardinality({k \in DOMAIN publicMarkdown.targets :
                               WritesFile(publicMarkdown.targets[k])})
        /\ \A j, k \in DOMAIN publicMarkdown.targets :
              OutputPathOf(j) = OutputPathOf(k) => j = k


\* ---- route resolution

\* the template route with every {token} and :token replaced
SubstitutedRoute(row) ==
    ReplaceColonTokens(ReplaceBraceTokens(row.template.route, buildTokenMap(row.record)),
                       buildTokenMap(row.record))

\* an unresolved pattern, a literal ://, or a double slash
IsRejected(route) ==
    \/ HasBracePattern(route)
    \/ HasColonPattern(route)
    \/ Includes(route, <<":", "/", "/">>)
    \/ Includes(route, <<"/", "/">>)

PagesOfRow(row) ==
    {k \in DOMAIN built.index.pages :
        /\ built.index.pages[k].templateId = row.template.id
        /\ built.index.pages[k].slug = row.record.slug}

RoutesResolved == built.index.set /\ ~built.threw

\* C21: once the index is built, a row whose substituted route holds an
\* unresolved pattern, a :// or a double slash has no page, and any other
\* row has the page whose path is the normalized substituted route
C21_Counterexample ==
    RoutesResolved =>
        \A k \in DOMAIN TemplateRows(templates) :
            IF IsRejected(SubstitutedRoute(TemplateRows(templates)[k]))
            THEN PagesOfRow(TemplateRows(templates)[k]) = {}
            ELSE \E j \in PagesOfRow(TemplateRows(templates)[k]) :
                    built.index.pages[j].path =
                        normalizePath(SubstitutedRoute(TemplateRows(templates)[k]))


\* ---- the token map

SlugKey == <<"s","l","u","g">>

\* the keys the rows and the templates of the model use
TokenKeys ==
    {SlugKey, <<"t","o","p","i","c">>, <<"q">>, <<"a">>, <<"l","a","b","e","l">>, <<"t","i","t","l","e">>}

FromTopLevel(record, key) == key \notin RESERVED_TOKEN_KEYS /\ HasKey(record.fields, key)

\* whether the map is to hold the key, and the value it is to hold
IsToken(record, key) ==
    key = SlugKey \/ FromTopLevel(record, key) \/ HasKey(record.tokens, key)

TokenValue(record, key) ==
    IF key = SlugKey THEN record.slug
    ELSE IF FromTopLevel(record, key) THEN Lookup(record.fields, key)
    ELSE Lookup(record.tokens, key)

PagesBuilt == builtPages.built /\ ~builtPages.outcome.threw

PageOfRow(templateId, slug) ==
    {k \in DOMAIN builtPages.outcome.records :
        /\ builtPages.outcome.records[k].templateId = templateId
        /\ builtPages.outcome.records[k].slug = slug}

\* C22: for every row the token map holds the entries of the tokens bag,
\* overridden by the string fields whose key is not reserved, holds nothing
\* from a reserved top-level key, and maps slug to the row's slug; once the
\* pages are built, the row {slug: testing, topic: Testing} of the template
\* with route /guides/{slug} and title 'Guide to {{topic}}' has the page
\* /guides/testing titled 'Guide to Testing', and every guide row has the
\* page /guides/<its slug>
C22_Theorem ==
    /\ \A k \in DOMAIN TemplateRows(templates) : \A key \in TokenKeys :
          /\ HasKey(buildTokenMap(TemplateRows(templates)[k].record), key)
                 = IsToken(TemplateRows(templates)[k].record, key)
          /\ IsToken(TemplateRows(templates)[k].record, key) =>
                 Lookup(buildTokenMap(TemplateRows(templates)[k].record), key)
                     = TokenValue(TemplateRows(templates)[k].record, key)
    /\ PagesBuilt =>
          \A k \in DOMAIN TemplateRows(templates) :
              TemplateRows(templates)[k].template.id = "guide" =>
                  \E j \in PageOfRow("guide", TemplateRows(templates)[k].record.slug) :
                      /\ builtPages.outcome.records[j].path
                             = <<"/","g","u","i","d","e","s","/">> \o TemplateRows(templates)[k].record.slug
                      /\ TemplateRows(templates)[k].record.slug = <<"t","e","s","t","i","n","g">> =>
                             builtPages.outcome.records[j].content.title
                                 = <<"G","u","i","d","e"," ","t","o"," ","T","e","s","t","i","n","g">>

\* the pages are built from the row of the example and from a row whose
\* tokens bag holds a slug of its own and whose title is a reserved field
C22_Witness ==
    /\ PagesBuilt
    /\ \E j \in PageOfRow("guide", <<"t","e","s","t","i","n","g">>) :
          builtPages.outcome.records[j].content.title = <<"G","u","i","d","e"," ","t","o"," ","T","e","s","t","i","n","g">>
    /\ \E j \in PageOfRow("guide", <<"l","i","n","t","i","n","g">>) :
          /\ builtPages.outcome.records[j].path = <<"/","g","u","i","d","e","s","/","l","i","n","t","i","n","g">>
          /\ builtPages.outcome.records[j].content.title = <<"L","i","n","t"," ","i","t">>
          /\ builtPages.outcome.records[j].content.description = <<"A","b","o","u","t"," ","L","i","n","t","i","n","g">>
    /\ \E k \in DOMAIN TemplateRows(templates) :
          Lookup(TemplateRows(templates)[k].record.tokens, SlugKey) = <<"o","t","h","e","r">>


\* ---- related links

BuiltPage(k) == builtPages.outcome.records[k]

BuiltPageIds == DOMAIN builtPages.outcome.records

SharedTags(k, c) == Cardinality(Range(BuiltPage(k).tags) \cap Range(BuiltPage(c).tags))

\* the other pages of the page's template that share a tag with it
TagCandidates(k) ==
    {c \in BuiltPageIds :
        /\ BuiltPage(c).templateId = BuiltPage(k).templateId
        /\ c # k
        /\ SharedTags(k, c) >= 1}

\* when the candidate is first seen: at the first of the page's tags it
\* carries, in page order
FirstSeen(k, c) ==
    100 * SetMin({t \in DOMAIN BuiltPage(k).tags : BuiltPage(k).tags[t] \in Range(BuiltPage(c).tags)})
        + c

\* candidate a comes before candidate b among the related links of page k
RanksBefore(k, a, b) ==
    \/ SharedTags(k, a) > SharedTags(k, b)
    \/ SharedTags(k, a) = SharedTags(k, b) /\ FirstSeen(k, a) < FirstSeen(k, b)

IsTagLinked(k) ==
    /\ BuiltPage(k).relatedSlugs = <<>>
    /\ BuiltPage(k).tags # <<>>
    /\ TemplateOf(templates, BuiltPage(k).templateId).relatedBy = "tag"

LinkOf(c) == SeoLink(BuiltPage(c).label, BuiltPage(c).path)

RelatedLinks(k) == BuiltPage(k).content.relatedLinks

\* the candidate a link of page k leads to
LinkedAt(k, i) == {c \in TagCandidates(k) : LinkOf(c) = RelatedLinks(k)[i]}

\* C23: once the pages are built, a page without relatedSlugs, with tags, in
\* a template related by tag has as related links the other pages of its
\* template that share a tag with it, by number of shared tags descending
\* and first seen first among equals, cut to relatedLimit (6 when unset),
\* never itself and none twice
C23_Theorem ==
    PagesBuilt =>
        \A k \in BuiltPageIds :
            IsTagLinked(k) =>
                /\ Len(RelatedLinks(k))
                       = MinOf(Cardinality(TagCandidates(k)),
                               IF TemplateOf(templates, BuiltPage(k).templateId).relatedLimit = NoLimit
                               THEN 6
                               ELSE TemplateOf(templates, BuiltPage(k).templateId).relatedLimit)
                /\ \A i \in DOMAIN RelatedLinks(k) :
                      /\ Cardinality(LinkedAt(k, i)) = 1
                      /\ RelatedLinks(k)[i].href # BuiltPage(k).path
                      /\ \A j \in DOMAIN RelatedLinks(k) :
                            i < j => \A a \in LinkedAt(k, i), b \in LinkedAt(k, j) :
                                        RanksBefore(k, a, b)
                      /\ \A b \in TagCandidates(k) :
                            (\A j \in DOMAIN RelatedLinks(k) : b \notin LinkedAt(k, j)) =>
                                \A a \in LinkedAt(k, i) : RanksBefore(k, a, b)

\* a page linked to two pages of equal score and a page linked to two pages
\* of different scores
C23_Witness ==
    /\ PagesBuilt
    /\ \E k \in BuiltPageIds :
          /\ IsTagLinked(k)
          /\ Len(RelatedLinks(k)) = 2
          /\ \A a \in LinkedAt(k, 1), b \in LinkedAt(k, 2) : SharedTags(k, a) = SharedTags(k, b)
    /\ \E k \in BuiltPageIds :
          /\ IsTagLinked(k)
          /\ Len(RelatedLinks(k)) = 2
          /\ \A a \in LinkedAt(k, 1), b \in LinkedAt(k, 2) : SharedTags(k, a) > SharedTags(k, b)


\* the page a relatedSlugs entry of page k names: for an entry that starts
\* with a slash the page of any template at the normalized path, for any
\* other entry the first page of the same template with that slug
NamedBy(k, entry) ==
    IF StartsWith(entry, <<"/">>)
    THEN {c \in BuiltPageIds : BuiltPage(c).path = normalizePath(entry)}
    ELSE {c \in BuiltPageIds :
             /\ BuiltPage(c).templateId = BuiltPage(k).templateId
             /\ BuiltPage(c).slug = entry
             /\ \A b \in BuiltPageIds :
                   BuiltPage(b).templateId = BuiltPage(k).templateId /\ BuiltPage(b).slug = entry
                       => c <= b}

RECURSIVE DeclaredLinks(_, _)
DeclaredLinks(k, entries) ==
    IF entries = <<>> THEN <<>>
    ELSE (IF NamedBy(k, Head(entries)) = {} THEN <<>>
          ELSE <<LinkOf(CHOOSE c \in NamedBy(k, Head(entries)) : TRUE)>>)
             \o DeclaredLinks(k, Tail(entries))

\* C24: once the pages are built, a page with relatedSlugs has as related
\* links the pages its entries name, in declared order, an entry that names
\* no page being dropped; tags play no part, even when no entry names a page
C24_Theorem ==
    PagesBuilt =>
        \A k \in BuiltPageIds :
            BuiltPage(k).relatedSlugs # <<>> =>
                /\ \A entry \in Range(BuiltPage(k).relatedSlugs) :
                      Cardinality(NamedBy(k, entry)) <= 1
                /\ RelatedLinks(k) = DeclaredLinks(k, BuiltPage(k).relatedSlugs)

\* the guide page deploy links to a guide by slug, to a page of the tool
\* template by path although that template comes later, and to a guide by
\* path, its unknown entry dropped; the tool page testing links to the
\* guide of the same slug by path and to itself by slug
C24_Witness ==
    /\ PagesBuilt
    /\ templates[1].id = "guide"
    /\ \E k \in PageOfRow("guide", <<"d","e","p","l","o","y">>) :
          [i \in DOMAIN RelatedLinks(k) |-> RelatedLinks(k)[i].href]
              = <<<<"/","g","u","i","d","e","s","/","t","e","s","t","i","n","g">>, <<"/","t","o","o","l","s","/","f","m","t">>, <<"/","g","u","i","d","e","s","/","l","i","n","t","i","n","g">>>>
    /\ \E k \in PageOfRow("tool", <<"t","e","s","t","i","n","g">>) :
          [i \in DOMAIN RelatedLinks(k) |-> RelatedLinks(k)[i].href]
              = <<<<"/","g","u","i","d","e","s","/","t","e","s","t","i","n","g">>, <<"/","t","o","o","l","s","/","t","e","s","t","i","n","g">>, <<"/","t","o","o","l","s","/","f","m","t">>>>


\* ---- thin content

PagesValidated == PagesBuilt /\ issues.validated /\ ~issues.outcome.threw

HasThinWarning(k) ==
    \E i \in DOMAIN issues.outcome.records :
        /\ issues.outcome.records[i].kind = "thin-content"
        /\ issues.outcome.records[i].path = BuiltPage(k).path

\* no sections, no feature-list items and no FAQs, an empty list counting
\* as an absent one
HasNoBody(k) ==
    /\ BuiltPage(k).content.sections.items = <<>>
    /\ BuiltPage(k).content.featureList.items = <<>>
    /\ BuiltPage(k).content.faqs.items = <<>>

\* C27: once the pages are built and validated, a page has a thin-content
\* warning exactly when it has no sections, no feature-list items and no
\* FAQs
C27_Counterexample ==
    PagesValidated => \A k \in BuiltPageIds : HasThinWarning(k) = HasNoBody(k)


\* ---- C25, C26: section classification and CTA precedence in both parsers

\* the depth-2 sections of the parsed document, in document order
DocSections == buildSectionsFromTokens(parseTokensForSummary(parsed.body).tokens)

ByStaticParser == parser = "parseMarkdownContent"

\* the kinds in the order they are checked, each with the keyword set of
\* the parser in use
KindOrder ==
    <<[kind |-> "steps", keys |-> StepsHeadings],
      [kind |-> "pricing", keys |-> PricingHeadings],
      [kind |-> "trust", keys |-> TrustHeadings],
      [kind |-> "faq", keys |-> IF ByStaticParser THEN FaqHeadings ELSE MarketingFaqHeadings],
      [kind |-> "resources", keys |-> ResourcesHeadings],
      [kind |-> "related", keys |-> RelatedHeadings],
      [kind |-> "features",
       keys |-> IF ByStaticParser THEN FeatureHeadings ELSE MarketingFeatureHeadings],
      [kind |-> "cta", keys |-> CtaHeadings]>>

\* the first kind whose keyword set holds the trimmed lower-cased heading,
\* "extra" when there is none
KindOfSection(section) ==
    LET hits == {k \in DOMAIN KindOrder : normalizeHeading(section.heading) \in KindOrder[k].keys}
    IN IF hits = {} THEN "extra"
       ELSE KindOrder[CHOOSE k \in hits : \A other \in hits : k <= other].kind

HasContent(section) == \E k \in DOMAIN section.raw : ~IsBlankLine(section.raw[k])

IsExtraSection(section) == KindOfSection(section) = "extra" /\ HasContent(section)

ExtraOf(section) ==
    SeoSection(IF ByStaticParser THEN defaultSectionHeading(section.heading)
               ELSE section.heading,
               Join(TrimText(section.raw), <<"\n">>))

\* the positions of the sections of a kind
SectionsOfKind(sections, kind) == {k \in DOMAIN sections : KindOfSection(sections[k]) = kind}

LastPosition(positions) == CHOOSE k \in positions : \A other \in positions : other <= k

\* what a list-valued kind holds: nothing when no section is of that kind
NoneOfKind(sections, kind) == SectionsOfKind(sections, kind) = {}

LastOfKind(sections, kind) == sections[LastPosition(SectionsOfKind(sections, kind))]

ExtrasOf(unmatched) == [k \in DOMAIN unmatched |-> ExtraOf(unmatched[k])]

ConsumedOnce(sections) ==
    /\ parsed.extraSections = ExtrasOf(SelectSeq(sections, IsExtraSection))
    /\ parsed.steps = IF NoneOfKind(sections, "steps") THEN NoFragments.steps
                      ELSE parseSteps(LastOfKind(sections, "steps"))
    /\ parsed.trust = IF NoneOfKind(sections, "trust") THEN NoFragments.trust
                      ELSE parseTrust(LastOfKind(sections, "trust"))
    /\ parsed.faqs = IF NoneOfKind(sections, "faq") THEN NoFragments.faqs
                     ELSE parseFaqs(LastOfKind(sections, "faq"))
    /\ parsed.resourceLinks = IF NoneOfKind(sections, "resources") THEN NoFragments.resourceLinks
                              ELSE parseLinks(LastOfKind(sections, "resources"))
    /\ parsed.relatedLinks = IF NoneOfKind(sections, "related") THEN NoFragments.relatedLinks
                             ELSE parseLinks(LastOfKind(sections, "related"))
    /\ parsed.featureList = IF NoneOfKind(sections, "features") THEN NoFragments.featureList
                            ELSE parseFeatureList(LastOfKind(sections, "features"))
    /\ NoneOfKind(sections, "pricing") => parsed.pricing = NoFragments.pricing
    /\ \A k \in DOMAIN sections :
           KindOfSection(sections[k]) # "extra" =>
               \A e \in DOMAIN parsed.extraSections :
                   parsed.extraSections[e].markdown # Join(TrimText(sections[k].raw), <<"\n">>)

\* C25: every depth-2 section is consumed by exactly one outcome.  The extra
\* sections are exactly the sections whose trimmed lower-cased heading is in
\* no keyword set of the parser in use and whose raw content is not blank,
\* in document order; a section of a kind is never among them, and each
\* list-valued kind holds what its own last section gives, nothing when the
\* document has no section of that kind.
C25_Theorem == parsed.done => ConsumedOnce(DocSections)

PricingInUpperCase(sections) ==
    /\ Len(sections) = 2
    /\ \E k \in DOMAIN sections :
           /\ KindOfSection(sections[k]) = "pricing"
           /\ sections[k].heading # normalizeHeading(sections[k].heading)

\* a document parsed into one extra section although it has two sections: the
\* other one has a heading of a kind written in upper case
C25_Witness ==
    /\ parsed.done
    /\ Len(parsed.extraSections) = 1
    /\ parsed.pricing.set
    /\ PricingInUpperCase(DocSections)


\* the positions of the CTA sections that yield a link
YieldingCtaSections(sections) ==
    {k \in SectionsOfKind(sections, "cta") : parseCta(sections[k]).set}

CtaLabelMeta == MetaText(parsed.meta, <<"c","t","a","-","l","a","b","e","l">>)

CtaHrefMeta == MetaText(parsed.meta, <<"c","t","a","-","h","r","e","f">>)

CtaNoteMeta == MetaText(parsed.meta, <<"c","t","a","-","n","o","t","e">>)

CtaBySection(sections) ==
    IF YieldingCtaSections(sections) # {}
    THEN parsed.cta = parseCta(sections[LastPosition(YieldingCtaSections(sections))])
    ELSE IF CtaLabelMeta # <<>> /\ CtaHrefMeta # <<>>
    THEN parsed.cta = SeoCta(CtaLabelMeta, CtaHrefMeta, CtaNoteMeta)
    ELSE ~parsed.cta.set

\* C26: in a parsed document, the CTA is the one of the CTA section that
\* yielded a link whatever the cta-label and cta-href metadata say; without
\* such a section it is built from the metadata when both cta-label and
\* cta-href are non-empty; otherwise the document has no CTA.
C26_Theorem == parsed.done => CtaBySection(DocSections)

\* a document with both metadata values and a CTA section with a link,
\* parsed into the CTA of the section
C26_Witness ==
    /\ parsed.done
    /\ CtaLabelMeta # <<>>
    /\ CtaHrefMeta # <<>>
    /\ YieldingCtaSections(DocSections) # {}
    /\ parsed.cta.set
    /\ parsed.cta.label # CtaLabelMeta

\* ---- C28: the order of the callbacks of maybeRenderMarkdown

CallsOf(callback) == {k \in DOMAIN callbacks.calls : callbacks.calls[k].callback = callback}

WantsMarkdown == isMarkdownRequest(markdownConfig, request)

\* resolveContent was invoked only after isIndexable returned true for the
\* same path
ResolvedAfterIndexable ==
    \A k \in CallsOf("resolveContent") :
        \E earlier \in CallsOf("isIndexable") :
            /\ earlier < k
            /\ callbacks.calls[earlier].returned
            /\ callbacks.calls[earlier].pathValue = callbacks.calls[k].pathValue

CallbackOrder ==
    /\ ~WantsMarkdown => callbacks.calls = <<>>
    /\ Cardinality(CallsOf("isIndexable")) <= 1
    /\ Cardinality(CallsOf("resolveContent")) <= 1
    /\ ResolvedAfterIndexable

\* a request that does not want markdown returns in the first step, with no
\* response
DefersAtOnce ==
    (callbacks.pc = "idle" /\ callbacks'.pc # "idle" /\ ~WantsMarkdown)
        => callbacks'.pc = "returned" /\ callbacks'.response.null /\ callbacks'.calls = <<>>

\* C28: a request that does not want markdown is deferred at once and
\* neither callback is invoked; isIndexable is invoked at most once and only
\* for a markdown request; resolveContent is invoked at most once and only
\* after isIndexable returned true for the same target path.
C28_Theorem == [][DefersAtOnce]_vars /\ []CallbackOrder

\* both callbacks were invoked, in this order, and the content rendered
C28_Witness ==
    /\ callbacks.pc = "returned"
    /\ Len(callbacks.calls) = 2
    /\ callbacks.calls[1].callback = "isIndexable"
    /\ callbacks.calls[2].callback = "resolveContent"
    /\ ~callbacks.response.null

\* ---- C30: the markdown alternate of a route, requested

\* the routes whose markdown alternate is the requested path
RoutesRequested == {p \in NormalPaths : request.url = buildMarkdownPath(p)}

\* C30: for every route path p in normal form, the site root and '/index'
\* included, a request for buildMarkdownPath(p) computes the target path p,
\* and the callbacks are consulted for p.
C30_Counterexample ==
    \A p \in RoutesRequested :
        callbacks.pc # "idle" =>
            /\ callbacks.targetPath = p
            /\ \A k \in DOMAIN callbacks.calls : callbacks.calls[k].pathValue = p

\* the same for every route but '/index'
AlternateOfOtherRoutes ==
    \A p \in RoutesRequested \ {SlashIndex} :
        callbacks.pc # "idle" =>
            /\ callbacks.targetPath = p
            /\ \A k \in DOMAIN callbacks.calls : callbacks.calls[k].pathValue = p

\* ---- C29: the dates of a marketing route over two runs

\* the marketing files that declare both metadata dates
DeclaringFiles ==
    {k \in DOMAIN routeDates.files :
        routeDates.files[k].published.set /\ routeDates.files[k].updated.set}

\* git-date enrichment is on, git yields no dates, and the first run found
\* no marketing_routes.json
EnrichedWithoutGit ==
    /\ routeDates.useGitDates
    /\ routeDates.git.null
    /\ Len(routeDates.runs) >= 2
    /\ ~routeDates.runs[1].hadCache

HasMetadataDates(routes, file) ==
    \E r \in DOMAIN routes :
        /\ routes[r].path = file.path
        /\ routes[r].publishedAt = file.published
        /\ routes[r].updatedAt = file.updated

\* C29: with git-date enrichment on, git yielding no dates and a first run
\* that finds no marketing_routes.json, two successive runs give a route
\* whose file declares published and updated metadata the same dates, those
\* of the metadata, in result.routes and in marketing_routes.json.
C29_Counterexample ==
    EnrichedWithoutGit =>
        \A k \in DeclaringFiles, n \in 1..2 :
            /\ HasMetadataDates(routeDates.runs[n].routes, routeDates.files[k])
            /\ HasMetadataDates(routeDates.runs[n].written, routeDates.files[k])

\* the second of the two runs does give the metadata dates
SecondRunDated ==
    EnrichedWithoutGit =>
        \A k \in DeclaringFiles :
            /\ HasMetadataDates(routeDates.runs[2].routes, routeDates.files[k])
            /\ HasMetadataDates(routeDates.runs[2].written, routeDates.files[k])

\* without git-date enrichment both runs give the metadata dates
PlainRunsDated ==
    ~routeDates.useGitDates =>
        \A k \in DeclaringFiles, n \in DOMAIN routeDates.runs :
            /\ HasMetadataDates(routeDates.runs[n].routes, routeDates.files[k])
            /\ HasMetadataDates(routeDates.runs[n].written, routeDates.files[k])
=============================================================================
